---- MODULE Spec2Model ----
(***************************************************************************)
(* Model of the window-control service of wmctrllike@jasonyukr             *)
(* (extension.js, the WMCtrlLikeExtension class with the LaunchHere        *)
(* method): window identity, classification, the sorted registry snapshot, *)
(* the focus-cycle operations and the window control operations.           *)
(*                                                                         *)
(* A JavaScript string is modelled as a sequence of one-character strings, *)
(* so that formatting, parsing, trimming and lower-casing are computed and *)
(* not assumed.  A window handle is a number 1..; 0 is JavaScript null.    *)
(***************************************************************************)
EXTENDS Integers, Sequences, FiniteSets, TLC

VARIABLES
    win,        \* handle -> the window's properties as the window system holds them
    actors,     \* global.get_window_actors(): the handles, in stacking order
    focus,      \* global.display.focus_window (0: none)
    activeWs,   \* index of the active workspace
    clock,      \* Date.now()
    op,         \* the last IPC call (or event handed to a handler): its name and its inputs
    ret,        \* what the last IPC call returned
    calls,      \* the window-system primitives the last call or event handler invoked, in order
    snap,       \* the snapshot the last IPC call built (<<>> when it built none)
    thrown,     \* whether the last IPC call let an exception out of its handler
    launches    \* what each _launchHere call that spawned holds registered

vars == <<win, actors, focus, activeWs, clock, op, ret, calls, snap, thrown, launches>>

----------------------------------------------------------------------------
(* Bounds of the model *)

\* handles of the registry specification
MaxRegWin == 2
\* handles of the operation specifications
MaxWin == 3
\* workspaces 0..MaxWs
MaxWs == 1
\* largest native id / sequence number drawn
MaxNative == 2
\* the workspace of the windows that are off the active workspace 0
AwayWs == 1
\* the last reading of the clock
MaxClock == 1
MaxLaunch == 1
MaxIdNumber == 31

----------------------------------------------------------------------------
(* JavaScript strings *)

LowerAlpha == <<"a","b","c","d","e","f","g","h","i","j","k","l","m",
                "n","o","p","q","r","s","t","u","v","w","x","y","z">>
UpperAlpha == <<"A","B","C","D","E","F","G","H","I","J","K","L","M",
                "N","O","P","Q","R","S","T","U","V","W","X","Y","Z">>
Digits16 == <<"0","1","2","3","4","5","6","7","8","9","a","b","c","d","e","f">>

IndexIn(c, s) == IF \E i \in 1..Len(s) : s[i] = c
                 THEN CHOOSE i \in 1..Len(s) : s[i] = c
                 ELSE 0

\* the characters drawn
Chars == {" ", "-", ".", "+"} \cup {Digits16[i] : i \in 1..16}
         \cup {LowerAlpha[i] : i \in 1..26} \cup {UpperAlpha[i] : i \in 1..26}

\* String.prototype.toLowerCase, per character
LowerMap == [c \in Chars |->
                IF IndexIn(c, UpperAlpha) > 0 THEN LowerAlpha[IndexIn(c, UpperAlpha)] ELSE c]

ToLowerCase(s) == [i \in 1..Len(s) |-> LowerMap[s[i]]]

\* String.prototype.trim (the blank is the only white space drawn)
RECURSIVE TrimLeft(_)
TrimLeft(s) == IF Len(s) > 0 /\ s[1] = " " THEN TrimLeft(Tail(s)) ELSE s

RECURSIVE TrimRight(_)
TrimRight(s) == IF Len(s) > 0 /\ s[Len(s)] = " "
                THEN TrimRight(SubSeq(s, 1, Len(s) - 1)) ELSE s

Trim(s) == TrimRight(TrimLeft(s))

StartsWith(s, p) == Len(s) >= Len(p) /\ SubSeq(s, 1, Len(p)) = p

Slice(s, n) == SubSeq(s, n + 1, Len(s))

\* Number.prototype.toString(16) of an integer
RECURSIVE HexDigitsOf(_)
HexDigitsOf(n) == IF n < 16 THEN <<Digits16[n + 1]>>
                  ELSE HexDigitsOf(n \div 16) \o <<Digits16[(n % 16) + 1]>>

ToString16(n) == IF n < 0 THEN <<"-">> \o HexDigitsOf(-n) ELSE HexDigitsOf(n)

\* a parse result is <<n>>, or <<>> for NaN
NaN == <<>>

\* the value of a hexadecimal digit of either case, -1 for another character
HexDigitMap == [c \in Chars |-> IndexIn(LowerMap[c], Digits16) - 1]

\* the hexadecimal digits a string starts with
RECURSIVE HexPrefix(_)
HexPrefix(s) == IF Len(s) > 0 /\ HexDigitMap[s[1]] >= 0
                THEN <<s[1]>> \o HexPrefix(Tail(s)) ELSE <<>>

RECURSIVE HexValue(_)
HexValue(d) == IF Len(d) = 0 THEN 0
               ELSE 16 * HexValue(SubSeq(d, 1, Len(d) - 1))
                    + HexDigitMap[d[Len(d)]]

\* Number.parseInt(s, 16) after its white space: a sign, an optional 0x,
\* then the longest run of hexadecimal digits; NaN when there is none
HexPrefixStr == <<"0", "x">>

StripRadix(s) == IF StartsWith(ToLowerCase(s), HexPrefixStr) THEN Slice(s, 2) ELSE s

ParseDigits(neg, d) ==
    IF Len(d) = 0 THEN NaN
    ELSE IF neg THEN <<0 - HexValue(d)>> ELSE <<HexValue(d)>>

ParseTrimmed(s) ==
    ParseDigits(Len(s) > 0 /\ s[1] = "-",
                HexPrefix(StripRadix(IF Len(s) > 0 /\ s[1] \in {"-", "+"} THEN Tail(s) ELSE s)))

ParseInt16(str) == ParseTrimmed(TrimLeft(str))

\* String.prototype.localeCompare on the characters drawn: the letters compare
\* first without their case, a lower-case letter before its upper-case one
CollationOrder == <<" ", "-", ".">> \o
                  <<"0","1","2","3","4","5","6","7","8","9">> \o LowerAlpha

PrimaryMap == [c \in Chars |-> IndexIn(LowerMap[c], CollationOrder)]
TertiaryMap == [c \in Chars |-> IF IndexIn(c, UpperAlpha) > 0 THEN 1 ELSE 0]

PrimaryWeights(s) == [i \in 1..Len(s) |-> PrimaryMap[s[i]]]
TertiaryWeights(s) == [i \in 1..Len(s) |-> TertiaryMap[s[i]]]

\* the sign of the lexicographic comparison of a and b from position i on
RECURSIVE LexCompare(_, _, _)
LexCompare(a, b, i) ==
    IF i > Len(a) /\ i > Len(b) THEN 0
    ELSE IF i > Len(a) THEN -1
    ELSE IF i > Len(b) THEN 1
    ELSE IF a[i] < b[i] THEN -1
    ELSE IF a[i] > b[i] THEN 1
    ELSE LexCompare(a, b, i + 1)

\* c when it decides, else d
OrElse(c, d) == IF c # 0 THEN c ELSE d

LocaleCompare(a, b) ==
    OrElse(LexCompare(PrimaryWeights(a), PrimaryWeights(b), 1),
           LexCompare(TertiaryWeights(a), TertiaryWeights(b), 1))

----------------------------------------------------------------------------
(* The window system as the extension reads it.  A state st is a record    *)
(* [win, actors, focus, activeWs, clock].  In a window record a native     *)
(* number of -1 stands for a method that is absent or raises, <<>> for a   *)
(* null string and ws = -1 for a null workspace.                           *)

NoWindow == 0

State == [win |-> win, actors |-> actors, focus |-> focus,
          activeWs |-> activeWs, clock |-> clock]

\* _toHexId, the sequence: get_stable_sequence, get_id where that is absent
SequenceOf(w) == IF w.seq >= 0 THEN w.seq ELSE IF w.mid >= 0 THEN w.mid ELSE 0

\* _toHexId, the last resort: the object hash, Date.now() when it raises
HashOf(w, now) == IF w.hash >= 0 THEN w.hash ELSE now

\* _toHexId, the number: the X11 id, else the sequence, else the last resort
IdNumber(w, now) ==
    IF w.xid > 0 THEN w.xid
    ELSE IF SequenceOf(w) = 0 THEN HashOf(w, now)
    ELSE SequenceOf(w)

\* _toHexId
ToHexId(st, h) == HexPrefixStr \o ToString16(IdNumber(st.win[h], st.clock))

\* _classInstance, one half: the native string, else the application id of
\* the owning application, else 'unknown'
HalfOf(own, app) ==
    IF own # <<>> THEN own
    ELSE IF app # <<>> THEN app
    ELSE <<"u","n","k","n","o","w","n">>

\* _classInstance
ClassInstance(st, h) ==
    ToLowerCase(HalfOf(st.win[h].inst, st.win[h].app)) \o <<".">>
        \o ToLowerCase(HalfOf(st.win[h].wmcls, st.win[h].app))

ParsedOrZero(n) == IF n # NaN THEN n[1] ELSE 0

StripPrefix(s) == IF StartsWith(s, HexPrefixStr) THEN Slice(s, 2) ELSE s

\* _creationOrderKey
CreationOrderKey(st, h) ==
    IF st.win[h].seq > 0 THEN st.win[h].seq
    ELSE IF st.win[h].mid > 0 THEN st.win[h].mid
    ELSE ParsedOrZero(ParseInt16(StripPrefix(ToHexId(st, h))))

\* _workspaceIndex
WorkspaceIndex(st, h) ==
    IF st.win[h].sticky THEN -1
    ELSE IF st.win[h].ws >= 0 THEN st.win[h].ws
    ELSE 0

\* _activeWorkspaceIndex
ActiveWorkspaceIndex(st) == st.activeWs

\* _activeWindowId
ActiveWindowId(st) == IF st.focus = NoWindow THEN <<>> ELSE ToHexId(st, st.focus)

\* _isTasklistWindow
IsTasklistWindow(st, h) ==
    IF st.win[h].skip THEN FALSE
    ELSE IF st.win[h].wtype \in {"DESKTOP", "DOCK"} THEN FALSE
    ELSE TRUE

\* the record _listWindowsItems pushes for one window
ItemOf(st, h) ==
    [key |-> CreationOrderKey(st, h), id |-> ToHexId(st, h),
     desk |-> WorkspaceIndex(st, h), cls |-> ClassInstance(st, h),
     title |-> st.win[h].title]

\* the comparator _listWindowsItems sorts with
CompareItems(a, b) ==
    OrElse(a.key - b.key,
    OrElse(a.desk - b.desk,
    OrElse(LocaleCompare(a.cls, b.cls),
    OrElse(LocaleCompare(a.title, b.title),
           LocaleCompare(a.id, b.id)))))

\* Array.prototype.sort is stable: an item goes after the items that do not
\* compare greater than it
RECURSIVE InsertItem(_, _)
InsertItem(sorted, x) ==
    IF Len(sorted) = 0 THEN <<x>>
    ELSE IF CompareItems(x, sorted[Len(sorted)]) < 0
         THEN Append(InsertItem(SubSeq(sorted, 1, Len(sorted) - 1), x), sorted[Len(sorted)])
         ELSE Append(sorted, x)

\* the first n items, sorted
RECURSIVE SortItems(_, _)
SortItems(items, n) ==
    IF n = 0 THEN <<>> ELSE InsertItem(SortItems(items, n - 1), items[n])

\* the loop of _listWindowsItems from actor i on
RECURSIVE EligibleItems(_, _)
EligibleItems(st, i) ==
    IF i > Len(st.actors) THEN <<>>
    ELSE IF IsTasklistWindow(st, st.actors[i])
         THEN <<ItemOf(st, st.actors[i])>> \o EligibleItems(st, i + 1)
         ELSE EligibleItems(st, i + 1)

\* _listWindowsItems
ListWindowsItems(st) == SortItems(EligibleItems(st, 1), Len(EligibleItems(st, 1)))

\* a result without the prefix
CanonicalBare(n) == IF n = NaN THEN <<>> ELSE ToString16(n[1])

\* _normalizeIdString, the result: <<>> stands for null
Canonical(n) == IF n = NaN THEN <<>> ELSE HexPrefixStr \o ToString16(n[1])

\* _normalizeIdString
NormalizeIdString(id) == Canonical(ParseInt16(StripPrefix(ToLowerCase(Trim(id)))))

\* a lookup that takes the first window with the id, eligible or not
RECURSIVE FirstWithIdAny(_, _, _)
FirstWithIdAny(st, norm, i) ==
    IF i > Len(st.actors) THEN NoWindow
    ELSE IF ToLowerCase(ToHexId(st, st.actors[i])) = norm THEN st.actors[i]
    ELSE FirstWithIdAny(st, norm, i + 1)

\* the loop of _findWindowById from actor i on
RECURSIVE FirstWithId(_, _, _)
FirstWithId(st, norm, i) ==
    IF i > Len(st.actors) THEN NoWindow
    ELSE IF IsTasklistWindow(st, st.actors[i])
            /\ ToLowerCase(ToHexId(st, st.actors[i])) = norm
         THEN st.actors[i]
         ELSE FirstWithId(st, norm, i + 1)

\* _findWindowById
FindWindowById(st, id) ==
    IF NormalizeIdString(id) = <<>> THEN NoWindow
    ELSE FirstWithId(st, NormalizeIdString(id), 1)

----------------------------------------------------------------------------
(* The operations.  Each takes the state it starts in and env, which says  *)
(* for the collaborator calls it makes whether they return or raise:       *)
(* env.enum (global.get_window_actors), env.switch (the workspace's        *)
(* activate), env.act (the window's activate), env.resize                  *)
(* (move_resize_frame).  Each yields an outcome [st, ret, calls]: the      *)
(* state it leaves, what it returns and the mutation primitives it         *)
(* invoked, in order.                                                      *)

Call(prim, h, arg, ok) == [prim |-> prim, win |-> h, arg |-> arg, ok |-> ok]

Outcome(st, r, cs) == [st |-> st, ret |-> r, calls |-> cs]

Fail(st) == Outcome(st, FALSE, <<>>)

\* JavaScript's %: the sign of the dividend
JsRem(a, n) == IF a >= 0 THEN a % n ELSE 0 - ((0 - a) % n)

\* a switch that does not look at whether the window is pinned
NeedSwitchPinnedToo(st, h) == st.win[h].ws >= 0 /\ st.activeWs # st.win[h].ws

\* _activateWindowById: whether the workspace has to be switched
NeedSwitch(st, h) ==
    ~st.win[h].sticky /\ st.win[h].ws >= 0 /\ st.activeWs # st.win[h].ws

\* _activateWindowById: the switch to the window's workspace; a raise is swallowed
WorkspaceFollow(o, h, env) ==
    IF NeedSwitch(o.st, h)
    THEN Outcome(IF env.switch THEN [o.st EXCEPT !.activeWs = o.st.win[h].ws] ELSE o.st,
                 o.ret,
                 Append(o.calls, Call("workspace.activate", h, <<o.st.win[h].ws>>, env.switch)))
    ELSE o

\* w.unminimize() of a minimized window
Unminimize(o, h) ==
    IF o.st.win[h].minimized
    THEN Outcome([o.st EXCEPT !.win[h].minimized = FALSE], o.ret,
                 Append(o.calls, Call("unminimize", h, <<>>, TRUE)))
    ELSE o

\* _activateWindowById: w.activate(timestamp), and what is returned
Activate(o, h, env) ==
    Outcome(IF env.act THEN [o.st EXCEPT !.focus = h] ELSE o.st,
            env.act,
            Append(o.calls, Call("activate", h, <<>>, env.act)))

\* _activateWindowById once the window is looked up
ActivateFound(st, h, env) ==
    IF h = NoWindow THEN Fail(st)
    ELSE Activate(Unminimize(WorkspaceFollow(Fail(st), h, env), h), h, env)

\* _activateWindowById
ActivateWindowById(st, id, env) ==
    IF ~env.enum THEN Fail(st) ELSE ActivateFound(st, FindWindowById(st, id), env)

\* _resizeWindowById: w.move_resize_frame(true, x, y, ww, hh) at the frame's
\* place, and what is returned
MoveResizeFrame(o, h, width, height, env) ==
    Outcome(IF env.resize
            THEN [o.st EXCEPT !.win[h].rect.w = width, !.win[h].rect.h = height]
            ELSE o.st,
            env.resize,
            Append(o.calls, Call("move_resize_frame", h,
                                 <<o.st.win[h].rect.x, o.st.win[h].rect.y, width, height>>,
                                 env.resize)))

\* a resize that does not look at the dimensions
ResizeFoundUnchecked(st, h, width, height, env) ==
    IF h = NoWindow THEN Fail(st)
    ELSE MoveResizeFrame(Unminimize(Fail(st), h), h, width, height, env)

\* _resizeWindowById once the window is looked up; width and height arrive
\* as 32-bit integers, which Number(x) | 0 leaves as they are
ResizeFound(st, h, width, height, env) ==
    IF h = NoWindow THEN Fail(st)
    ELSE IF ~(width > 0 /\ height > 0) THEN Fail(st)
    ELSE MoveResizeFrame(Unminimize(Fail(st), h), h, width, height, env)

\* _resizeWindowById
ResizeWindowById(st, id, width, height, env) ==
    IF ~env.enum THEN Fail(st)
    ELSE ResizeFound(st, FindWindowById(st, id), width, height, env)

\* a findIndex that takes the active window to be the first of the list
FindIndexFromFirst(items, lowId, i) == IF i > Len(items) THEN -1 ELSE i - 1

\* Array.prototype.findIndex by id, from position i on: the index (from 0) of
\* the first item with the id, -1 when there is none
RECURSIVE FindIndexFrom(_, _, _)
FindIndexFrom(items, lowId, i) ==
    IF i > Len(items) THEN -1
    ELSE IF ToLowerCase(items[i].id) = lowId THEN i - 1
    ELSE FindIndexFrom(items, lowId, i + 1)

\* a filter that keeps the items of every workspace
InWorkspaceFromAny(items, wsIdx, i) == SubSeq(items, i, Len(items))

\* the filter of the three focus operations and of _focusByCls: the items on
\* workspace wsIdx or pinned, from position i on
RECURSIVE InWorkspaceFrom(_, _, _)
InWorkspaceFrom(items, wsIdx, i) ==
    IF i > Len(items) THEN <<>>
    ELSE IF items[i].desk = wsIdx \/ items[i].desk = -1
         THEN <<items[i]>> \o InWorkspaceFrom(items, wsIdx, i + 1)
         ELSE InWorkspaceFrom(items, wsIdx, i + 1)

\* the items of class cls, from position i on
RECURSIVE OfClassFrom(_, _, _)
OfClassFrom(items, cls, i) ==
    IF i > Len(items) THEN <<>>
    ELSE IF items[i].cls = cls
         THEN <<items[i]>> \o OfClassFrom(items, cls, i + 1)
         ELSE OfClassFrom(items, cls, i + 1)

COPYQ_CLS == <<"c","o","p","y","q",".","c","o","p","y","q">>

\* where the circuit starts when findIndex gave found
StartIndex(found, delta) == IF found = -1 THEN (IF delta > 0 THEN -1 ELSE 0) ELSE found

\* a circular step that mirrors a negative remainder instead of wrapping it
WrapIndexMirrored(idx, delta, step, len) ==
    IF JsRem(idx + delta * step, len) < 0
    THEN 0 - JsRem(idx + delta * step, len)
    ELSE JsRem(idx + delta * step, len)

\* the index the circular step lands on
WrapIndex(idx, delta, step, len) ==
    IF JsRem(idx + delta * step, len) < 0
    THEN JsRem(idx + delta * step, len) + len
    ELSE JsRem(idx + delta * step, len)

\* _focusRelativeSameAppWindow: the class of the active window
ActiveClassSame(st, activeWin, byId, all) ==
    IF activeWin # NoWindow THEN ClassInstance(st, activeWin)
    ELSE IF byId >= 0 THEN all[byId + 1].cls
    ELSE <<>>

SameTargetIndex(idx, delta, len) == IF len = 1 THEN 0 ELSE WrapIndex(idx, delta, 1, len)

\* _focusRelativeSameAppWindow from the filtered list on
SameAppStep(st, delta, env, activeId, items) ==
    IF Len(items) = 0 THEN Fail(st)
    ELSE ActivateWindowById(st,
            items[SameTargetIndex(StartIndex(FindIndexFrom(items, ToLowerCase(activeId), 1), delta),
                                  delta, Len(items)) + 1].id,
            env)

\* _focusRelativeSameAppWindow once the class of the active window is known
SameAppOfClass(st, delta, env, activeId, all, activeCls) ==
    IF activeCls = <<>> THEN Fail(st)
    ELSE SameAppStep(st, delta, env, activeId,
                     OfClassFrom(InWorkspaceFrom(all, ActiveWorkspaceIndex(st), 1),
                                 activeCls, 1))

\* _focusRelativeSameAppWindow from the snapshot on
SameAppIn(st, delta, env, activeId, all) ==
    IF Len(all) = 0 THEN Fail(st)
    ELSE SameAppOfClass(st, delta, env, activeId, all,
            ActiveClassSame(st, FindWindowById(st, activeId),
                            FindIndexFrom(all, ToLowerCase(activeId), 1), all))

\* _focusRelativeSameAppWindow
FocusRelativeSameAppWindow(st, delta, env) ==
    IF ActiveWindowId(st) = <<>> THEN Fail(st)
    ELSE IF ~env.enum THEN Fail(st)
    ELSE SameAppIn(st, delta, env, ActiveWindowId(st), ListWindowsItems(st))

\* a loop that skips the active class only
RECURSIVE ScanOtherAppNoDenylist(_, _, _, _, _)
ScanOtherAppNoDenylist(inWs, idx, delta, step, activeCls) ==
    IF step > Len(inWs) THEN -1
    ELSE IF inWs[((idx + delta * step) % Len(inWs)) + 1].cls = activeCls
         THEN ScanOtherAppNoDenylist(inWs, idx, delta, step + 1, activeCls)
    ELSE (idx + delta * step) % Len(inWs)

\* the loop of _focusRelativeOtherAppWindow from step on: the index of the
\* first candidate that is neither CopyQ nor of the active class, -1 when the
\* circuit ends without one
RECURSIVE ScanOtherApp(_, _, _, _, _)
ScanOtherApp(inWs, idx, delta, step, activeCls) ==
    IF step > Len(inWs) THEN -1
    ELSE IF inWs[WrapIndex(idx, delta, step, Len(inWs)) + 1].cls = COPYQ_CLS
         THEN ScanOtherApp(inWs, idx, delta, step + 1, activeCls)
    ELSE IF inWs[WrapIndex(idx, delta, step, Len(inWs)) + 1].cls = activeCls
         THEN ScanOtherApp(inWs, idx, delta, step + 1, activeCls)
    ELSE WrapIndex(idx, delta, step, Len(inWs))

\* an activation that falls back on the first record when there is no candidate
ActivateAtOrFirst(st, env, inWs, target) ==
    IF target = -1 THEN ActivateWindowById(st, inWs[1].id, env)
    ELSE ActivateWindowById(st, inWs[target + 1].id, env)

\* the activation of the candidate at index target of inWs, if any
ActivateAt(st, env, inWs, target) ==
    IF target = -1 THEN Fail(st) ELSE ActivateWindowById(st, inWs[target + 1].id, env)

\* _focusRelativeOtherAppWindow: the class of the active window
ActiveClassOther(st, activeWin, byId, all) ==
    IF byId >= 0 THEN all[byId + 1].cls
    ELSE IF activeWin # NoWindow THEN ClassInstance(st, activeWin)
    ELSE <<>>

\* _focusRelativeOtherAppWindow from the workspace's list on
OtherAppStep(st, delta, env, activeId, activeCls, inWs) ==
    IF Len(inWs) = 0 THEN Fail(st)
    ELSE IF Len(inWs) = 1
         THEN (IF inWs[1].cls # activeCls /\ inWs[1].cls # COPYQ_CLS
               THEN ActivateWindowById(st, inWs[1].id, env)
               ELSE Fail(st))
    ELSE ActivateAt(st, env, inWs,
            ScanOtherApp(inWs, StartIndex(FindIndexFrom(inWs, ToLowerCase(activeId), 1), delta),
                         delta, 1, activeCls))

\* _focusRelativeOtherAppWindow once the class of the active window is known
OtherAppOfClass(st, delta, env, activeId, all, activeCls) ==
    IF activeCls = <<>> THEN Fail(st)
    ELSE OtherAppStep(st, delta, env, activeId, activeCls,
                      InWorkspaceFrom(all, ActiveWorkspaceIndex(st), 1))

\* _focusRelativeOtherAppWindow from the snapshot on
OtherAppIn(st, delta, env, activeId, all) ==
    IF Len(all) = 0 THEN Fail(st)
    ELSE OtherAppOfClass(st, delta, env, activeId, all,
            ActiveClassOther(st, FindWindowById(st, activeId),
                             FindIndexFrom(all, ToLowerCase(activeId), 1), all))

\* _focusRelativeOtherAppWindow
FocusRelativeOtherAppWindow(st, delta, env) ==
    IF ActiveWindowId(st) = <<>> THEN Fail(st)
    ELSE IF ~env.enum THEN Fail(st)
    ELSE OtherAppIn(st, delta, env, ActiveWindowId(st), ListWindowsItems(st))

\* a loop that skips the denylisted class only
RECURSIVE ScanAnyAppWithSelf(_, _, _, _, _)
ScanAnyAppWithSelf(inWs, idx, delta, step, lowId) ==
    IF step > Len(inWs) THEN -1
    ELSE IF inWs[((idx + delta * step) % Len(inWs)) + 1].cls = COPYQ_CLS
         THEN ScanAnyAppWithSelf(inWs, idx, delta, step + 1, lowId)
    ELSE (idx + delta * step) % Len(inWs)

\* the loop of _focusRelativeAnyAppWindow from step on
RECURSIVE ScanAnyApp(_, _, _, _, _)
ScanAnyApp(inWs, idx, delta, step, lowId) ==
    IF step > Len(inWs) THEN -1
    ELSE IF inWs[WrapIndex(idx, delta, step, Len(inWs)) + 1].cls = COPYQ_CLS
         THEN ScanAnyApp(inWs, idx, delta, step + 1, lowId)
    ELSE IF ToLowerCase(inWs[WrapIndex(idx, delta, step, Len(inWs)) + 1].id) = lowId
         THEN ScanAnyApp(inWs, idx, delta, step + 1, lowId)
    ELSE WrapIndex(idx, delta, step, Len(inWs))

\* _focusRelativeAnyAppWindow from the workspace's list on
AnyAppStep(st, delta, env, activeId, inWs) ==
    IF Len(inWs) = 0 THEN Fail(st)
    ELSE ActivateAt(st, env, inWs,
            ScanAnyApp(inWs, StartIndex(FindIndexFrom(inWs, ToLowerCase(activeId), 1), delta),
                       delta, 1, ToLowerCase(activeId)))

\* _focusRelativeAnyAppWindow from the snapshot on
AnyAppIn(st, delta, env, activeId, all) ==
    IF Len(all) = 0 THEN Fail(st)
    ELSE AnyAppStep(st, delta, env, activeId, InWorkspaceFrom(all, ActiveWorkspaceIndex(st), 1))

\* _focusRelativeAnyAppWindow
FocusRelativeAnyAppWindow(st, delta, env) ==
    IF ActiveWindowId(st) = <<>> THEN Fail(st)
    ELSE IF ~env.enum THEN Fail(st)
    ELSE AnyAppIn(st, delta, env, ActiveWindowId(st), ListWindowsItems(st))

\* the items whose class, lower-cased, is targetCls, from position i on
RECURSIVE MatchesFrom(_, _, _)
MatchesFrom(items, targetCls, i) ==
    IF i > Len(items) THEN <<>>
    ELSE IF ToLowerCase(items[i].cls) = targetCls
         THEN <<items[i]>> \o MatchesFrom(items, targetCls, i + 1)
         ELSE MatchesFrom(items, targetCls, i + 1)

\* a code that reports every activation as a success
CodeOfSuccess(o) == Outcome(o.st, 0, o.calls)

\* _focusByCls: the code for what the activation returned
CodeOf(o) == Outcome(o.st, IF o.ret THEN 0 ELSE 2, o.calls)

\* the items off workspace wsIdx, from position i on
RECURSIVE OffWorkspaceFrom(_, _, _)
OffWorkspaceFrom(items, wsIdx, i) ==
    IF i > Len(items) THEN <<>>
    ELSE IF ~(items[i].desk = wsIdx \/ items[i].desk = -1)
         THEN <<items[i]>> \o OffWorkspaceFrom(items, wsIdx, i + 1)
         ELSE OffWorkspaceFrom(items, wsIdx, i + 1)

\* a pick that prefers the matches off the workspace
PickOfAway(inWs, offWs) ==
    IF Len(offWs) > 0 THEN <<offWs[1]>>
    ELSE IF Len(inWs) > 0 THEN <<inWs[1]>>
    ELSE <<>>

\* _focusByCls: the pick, the first match on the workspace, else the first
\* match off it; <<>> stands for null
PickOf(inWs, offWs) ==
    IF Len(inWs) > 0 THEN <<inWs[1]>>
    ELSE IF Len(offWs) > 0 THEN <<offWs[1]>>
    ELSE <<>>

\* _focusByCls from the pick on
ByClsActivate(st, env, pick) ==
    IF pick = <<>> THEN Outcome(st, 1, <<>>)
    ELSE CodeOf(ActivateWindowById(st, pick[1].id, env))

\* _focusByCls from the matches on
ByClsPick(st, env, matches) ==
    IF Len(matches) = 0 THEN Outcome(st, 1, <<>>)
    ELSE ByClsActivate(st, env,
            PickOf(InWorkspaceFrom(matches, ActiveWorkspaceIndex(st), 1),
                   OffWorkspaceFrom(matches, ActiveWorkspaceIndex(st), 1)))

\* _focusByCls from the snapshot on
ByClsIn(st, targetCls, env, all) ==
    IF Len(all) = 0 THEN Outcome(st, 1, <<>>)
    ELSE ByClsPick(st, env, MatchesFrom(all, targetCls, 1))

\* _focusByCls; anything but a string is no input of the IPC method
FocusByCls(st, cls, env) ==
    IF Trim(cls) = <<>> THEN Outcome(st, 1, <<>>)
    ELSE IF ~env.enum THEN Outcome(st, 2, <<>>)
    ELSE ByClsIn(st, ToLowerCase(Trim(cls)), env, ListWindowsItems(st))

----------------------------------------------------------------------------
(* Actions: one per IPC method (enable), the whole handler in one step.    *)

Env(e, s, a, r) == [enum |-> e, switch |-> s, act |-> a, resize |-> r]

\* the collaborator outcomes that matter to a focus operation
FocusEnvs == {Env(TRUE, TRUE, TRUE, TRUE), Env(TRUE, TRUE, FALSE, TRUE),
              Env(FALSE, TRUE, TRUE, TRUE)}

\* ... to an activation that may switch the workspace
ActivateEnvs == FocusEnvs \cup {Env(TRUE, FALSE, TRUE, TRUE), Env(TRUE, FALSE, FALSE, TRUE)}

\* ... to a resize
ResizeEnvs == {Env(TRUE, TRUE, TRUE, TRUE), Env(TRUE, TRUE, TRUE, FALSE),
               Env(FALSE, TRUE, TRUE, TRUE)}

Request(name, id, nums, env) == [name |-> name, id |-> id, nums |-> nums, env |-> env]

NoRequest == Request("none", <<>>, <<>>, Env(TRUE, TRUE, TRUE, TRUE))

\* no call is being served and no launch is being tracked
Idle ==
    /\ op = NoRequest
    /\ ret = FALSE
    /\ calls = <<>>
    /\ snap = <<>>
    /\ thrown = FALSE
    /\ launches = <<>>

\* a call arrives when none is being served (one thread of control: every
\* handler runs to completion); the handler ran from State and left out
Done(req, out) ==
    /\ op = NoRequest
    /\ win' = out.st.win
    /\ actors' = out.st.actors
    /\ focus' = out.st.focus
    /\ activeWs' = out.st.activeWs
    /\ clock' = out.st.clock
    /\ op' = req
    /\ ret' = out.ret
    /\ calls' = out.calls
    /\ snap' = <<>>
    /\ thrown' = FALSE
    /\ UNCHANGED launches

\* the result has gone back to the caller
Reply ==
    /\ op # NoRequest
    /\ op' = NoRequest
    /\ ret' = FALSE
    /\ calls' = <<>>
    /\ snap' = <<>>
    /\ thrown' = FALSE
    /\ UNCHANGED <<win, actors, focus, activeWs, clock, launches>>

\* Number.prototype.toString() of an integer
RECURSIVE DecimalDigitsOf(_)
DecimalDigitsOf(n) == IF n < 10 THEN <<Digits16[n + 1]>>
                      ELSE DecimalDigitsOf(n \div 10) \o <<Digits16[(n % 10) + 1]>>

ToString10(n) == IF n < 0 THEN <<"-">> \o DecimalDigitsOf(-n) ELSE DecimalDigitsOf(n)

\* _listWindows: the line of one record
LineOf(it) ==
    it.id \o <<" ">> \o ToString10(it.desk) \o <<" ">> \o it.cls \o <<" ">> \o it.title

\* Array.prototype.join('\n') of the lines from position i on
RECURSIVE JoinLines(_, _)
JoinLines(items, i) ==
    IF i > Len(items) THEN <<>>
    ELSE IF i = Len(items) THEN LineOf(items[i])
    ELSE LineOf(items[i]) \o <<"\n">> \o JoinLines(items, i + 1)

\* _listWindowsText; a raise of the enumeration leaves the empty text
ListWindowsText(st, env) ==
    IF ~env.enum THEN <<>> ELSE JoinLines(ListWindowsItems(st), 1)

\* the collaborator outcomes that matter to a listing
ListEnvs == {Env(TRUE, TRUE, TRUE, TRUE), Env(FALSE, TRUE, TRUE, TRUE)}

ListWindows ==
    \E env \in ListEnvs :
        /\ op = NoRequest
        /\ op' = Request("ListWindows", <<>>, <<>>, env)
        /\ ret' = ListWindowsText(State, env)
        /\ calls' = <<>>
        /\ snap' = IF env.enum THEN ListWindowsItems(State) ELSE <<>>
        /\ thrown' = FALSE
        /\ UNCHANGED <<win, actors, focus, activeWs, clock, launches>>

\* the sequence s without its element h
RECURSIVE Without(_, _)
Without(s, h) ==
    IF Len(s) = 0 THEN <<>>
    ELSE IF s[1] = h THEN Without(Tail(s), h)
    ELSE <<s[1]>> \o Without(Tail(s), h)

\* the window system, not the extension: the user gives window h the focus,
\* which raises it to the top of the stack get_window_actors enumerates
RaiseWindow ==
    \E h \in DOMAIN win :
        /\ focus # h
        /\ actors' = Append(Without(actors, h), h)
        /\ focus' = h
        /\ UNCHANGED <<win, activeWs, clock, op, ret, calls, snap, thrown, launches>>

\* the window system, not the extension: Date.now() moves on
Tick ==
    /\ clock < MaxClock
    /\ clock' = clock + 1
    /\ UNCHANGED <<win, actors, focus, activeWs, op, ret, calls, snap, thrown, launches>>

\* classes as a caller writes them: as listed, in upper case with blanks
\* round them, of no window, empty and blank
ClassInputs == {<<"a", ".", "a">>, <<" ", "A", ".", "a", " ">>, <<"b", ".", "b">>,
                <<"c", ".", "c">>, <<>>, <<" ">>}

FocusByClsCall ==
    \E cls \in ClassInputs, env \in ActivateEnvs :
        Done(Request("FocusByCls", cls, <<>>, env), FocusByCls(State, cls, env))

\* ids as a caller writes them: as listed, in upper case with blanks round
\* them, without the prefix, of no window, and not a number
IdInputs == {<<"0", "x", "1">>, <<" ", "0", "X", "2", " ">>, <<"2">>,
             <<"0", "x", "f">>, <<"z">>}

ActivateById ==
    \E id \in IdInputs, env \in ActivateEnvs :
        Done(Request("ActivateById", id, <<>>, env), ActivateWindowById(State, id, env))

\* sizes as a caller writes them
Sizes == {-5, 0, 2}

ResizeIds == {<<"0", "x", "1">>, <<"0", "x", "2">>, <<"0", "x", "f">>}

ResizeById ==
    \E id \in ResizeIds, width \in Sizes, height \in Sizes, env \in ResizeEnvs :
        Done(Request("ResizeById", id, <<width, height>>, env),
             ResizeWindowById(State, id, width, height, env))

FocusNextSameAppWindow ==
    \E env \in FocusEnvs :
        Done(Request("FocusNextSameAppWindow", <<>>, <<>>, env),
             FocusRelativeSameAppWindow(State, 1, env))

FocusPrevSameAppWindow ==
    \E env \in FocusEnvs :
        Done(Request("FocusPrevSameAppWindow", <<>>, <<>>, env),
             FocusRelativeSameAppWindow(State, -1, env))

FocusNextOtherAppWindow ==
    \E env \in FocusEnvs :
        Done(Request("FocusNextOtherAppWindow", <<>>, <<>>, env),
             FocusRelativeOtherAppWindow(State, 1, env))

FocusPrevOtherAppWindow ==
    \E env \in FocusEnvs :
        Done(Request("FocusPrevOtherAppWindow", <<>>, <<>>, env),
             FocusRelativeOtherAppWindow(State, -1, env))

FocusNextAnyAppWindow ==
    \E env \in FocusEnvs :
        Done(Request("FocusNextAnyAppWindow", <<>>, <<>>, env),
             FocusRelativeAnyAppWindow(State, 1, env))

FocusPrevAnyAppWindow ==
    \E env \in FocusEnvs :
        Done(Request("FocusPrevAnyAppWindow", <<>>, <<>>, env),
             FocusRelativeAnyAppWindow(State, -1, env))

----------------------------------------------------------------------------
(* The windows drawn *)

NameA == <<"a">>
NameB == <<"b">>
NameCopyQ == <<"c","o","p","y","q">>

\* a window of a Wayland session: no X11 id, the stable sequence h
PlainWindow(h) ==
    [xid |-> 0, seq |-> h, mid |-> -1, hash |-> -1,
     inst |-> NameA, wmcls |-> NameA, app |-> <<>>, title |-> <<>>,
     ws |-> 0, sticky |-> FALSE, minimized |-> FALSE,
     wtype |-> "NORMAL", skip |-> FALSE,
     rect |-> [x |-> 0, y |-> 0, w |-> 1, h |-> 1]]

\* where a window is: on one of the workspaces, or on all of them
Desks == [ws : 0..MaxWs, sticky : {FALSE}] \cup {[ws |-> 0, sticky |-> TRUE]}

\* for the focus-cycle operations: on the active workspace (0), off it, pinned
CycleDesks == {[ws |-> 0, sticky |-> FALSE], [ws |-> AwayWs, sticky |-> FALSE],
               [ws |-> 0, sticky |-> TRUE]}

Identity(n) == [i \in 1..n |-> i]

----------------------------------------------------------------------------
(* The focus-cycle operations on MaxWin windows of three classes, each on  *)
(* the active workspace, on another one or pinned; any of them, or none,   *)
(* has the focus.                                                          *)

InitCycle ==
    /\ \E c \in [1..MaxWin -> {NameA, NameB, NameCopyQ}], d \in [1..MaxWin -> CycleDesks] :
          win = [h \in 1..MaxWin |->
                    [PlainWindow(h) EXCEPT !.inst = c[h], !.wmcls = c[h],
                                           !.ws = d[h].ws, !.sticky = d[h].sticky]]
    /\ actors = Identity(MaxWin)
    /\ focus \in 0..MaxWin
    /\ activeWs = 0
    /\ clock = 0
    /\ Idle

NextCycle ==
    \/ FocusNextSameAppWindow
    \/ FocusPrevSameAppWindow
    \/ FocusNextOtherAppWindow
    \/ FocusPrevOtherAppWindow
    \/ FocusNextAnyAppWindow
    \/ FocusPrevAnyAppWindow
    \/ Reply

SpecCycle == InitCycle /\ [][NextCycle]_vars

----------------------------------------------------------------------------
(* The registry on MaxRegWin windows.  Window h is the h-th created: where  *)
(* the window system numbers windows its stable sequence is h.  Its id      *)
(* comes from one of the sources _toHexId knows.                            *)

RegSources(h) ==
    \* a Wayland window: the stable sequence
    {[xid |-> 0, seq |-> h, hash |-> -1]}
    \* an X11 window: the X11 id
    \cup {[xid |-> x, seq |-> h, hash |-> -1] : x \in 1..MaxNative}
    \* no sequence number: the object hash
    \cup {[xid |-> 0, seq |-> -1, hash |-> v] : v \in {1, 2}}
    \* no sequence number and no hash: the clock
    \cup {[xid |-> 0, seq |-> -1, hash |-> -1]}

\* what else the records are sorted by, and what makes a window ineligible
RegLooks ==
    {[ws |-> 0, sticky |-> FALSE, name |-> NameA, title |-> <<"a">>, skip |-> FALSE],
     [ws |-> AwayWs, sticky |-> FALSE, name |-> NameA, title |-> <<"a">>, skip |-> FALSE],
     [ws |-> 0, sticky |-> TRUE, name |-> NameA, title |-> <<"a">>, skip |-> FALSE],
     [ws |-> 0, sticky |-> FALSE, name |-> NameB, title |-> <<"a">>, skip |-> FALSE],
     [ws |-> 0, sticky |-> FALSE, name |-> NameA, title |-> <<"B">>, skip |-> FALSE],
     [ws |-> 0, sticky |-> FALSE, name |-> NameA, title |-> <<"a">>, skip |-> TRUE]}

RegWindow(h, src, look) ==
    [PlainWindow(h) EXCEPT !.xid = src.xid, !.seq = src.seq, !.hash = src.hash,
                           !.ws = look.ws, !.sticky = look.sticky,
                           !.inst = look.name, !.wmcls = look.name,
                           !.title = look.title, !.skip = look.skip]

InitRegistry ==
    /\ \E src \in [1..MaxRegWin -> UNION {RegSources(h) : h \in 1..MaxRegWin}],
          look \in [1..MaxRegWin -> RegLooks] :
          /\ \A h \in 1..MaxRegWin : src[h] \in RegSources(h)
          \* the X server gives no two windows one id
          /\ \A h, k \in 1..MaxRegWin :
                (h # k /\ src[h].xid > 0) => src[h].xid # src[k].xid
          /\ win = [h \in 1..MaxRegWin |-> RegWindow(h, src[h], look[h])]
    /\ actors = Identity(MaxRegWin)
    /\ focus = NoWindow
    /\ activeWs = 0
    /\ clock = 0
    /\ Idle

NextRegistry ==
    \/ ListWindows
    \/ RaiseWindow
    \/ Tick
    \/ Reply

SpecRegistry == InitRegistry /\ [][NextRegistry]_vars

----------------------------------------------------------------------------
(* FocusByCls on MaxWin windows of two classes, each on the active          *)
(* workspace, on another one or pinned.                                     *)

InitByCls ==
    /\ \E c \in [1..MaxWin -> {NameA, NameB}], d \in [1..MaxWin -> CycleDesks] :
          win = [h \in 1..MaxWin |->
                    [PlainWindow(h) EXCEPT !.inst = c[h], !.wmcls = c[h],
                                           !.ws = d[h].ws, !.sticky = d[h].sticky]]
    /\ actors = Identity(MaxWin)
    /\ focus \in 0..MaxWin
    /\ activeWs = 0
    /\ clock = 0
    /\ Idle

NextByCls ==
    \/ FocusByClsCall
    \/ Reply

SpecByCls == InitByCls /\ [][NextByCls]_vars

----------------------------------------------------------------------------
(* ActivateById on MaxRegWin windows, each on a workspace or pinned,        *)
(* minimized or not.                                                        *)

InitActivate ==
    /\ \E d \in [1..MaxRegWin -> Desks], m \in [1..MaxRegWin -> BOOLEAN] :
          win = [h \in 1..MaxRegWin |->
                    [PlainWindow(h) EXCEPT !.ws = d[h].ws, !.sticky = d[h].sticky,
                                           !.minimized = m[h]]]
    /\ actors = Identity(MaxRegWin)
    /\ focus \in 0..MaxRegWin
    /\ activeWs \in 0..MaxWs
    /\ clock = 0
    /\ Idle

NextActivate ==
    \/ ActivateById
    \/ Reply

SpecActivate == InitActivate /\ [][NextActivate]_vars

----------------------------------------------------------------------------
(* ResizeById on MaxRegWin windows, minimized or not.                       *)

InitResize ==
    /\ \E m \in [1..MaxRegWin -> BOOLEAN] :
          win = [h \in 1..MaxRegWin |-> [PlainWindow(h) EXCEPT !.minimized = m[h]]]
    /\ actors = Identity(MaxRegWin)
    /\ focus \in 0..MaxRegWin
    /\ activeWs = 0
    /\ clock = 0
    /\ Idle

NextResize ==
    \/ ResizeById
    \/ Reply

SpecResize == InitResize /\ [][NextResize]_vars

----------------------------------------------------------------------------
(* What the claims speak of *)

\* the snapshot records on the active workspace or pinned, in snapshot order
Restricted(st) ==
    LET OnDesk(it) == it.desk = st.activeWs \/ it.desk = -1
    IN SelectSeq(ListWindowsItems(st), OnDesk)

\* the window a record of the snapshot stands for
HandleOf(st, it) == CHOOSE h \in DOMAIN st.win : ToHexId(st, h) = it.id

\* the position of window h in a sequence of records, 0 when it is not there
PositionOf(st, items, h) ==
    IF h # NoWindow /\ \E i \in 1..Len(items) : items[i].id = ToHexId(st, h)
    THEN CHOOSE i \in 1..Len(items) : items[i].id = ToHexId(st, h)
    ELSE 0

\* the windows the activation primitive was invoked on, in order
RECURSIVE ActivatedIn(_)
ActivatedIn(cs) ==
    IF Len(cs) = 0 THEN <<>>
    ELSE IF cs[1].prim = "activate" THEN <<cs[1].win>> \o ActivatedIn(Tail(cs))
    ELSE ActivatedIn(Tail(cs))

SameOps == {"FocusNextSameAppWindow", "FocusPrevSameAppWindow"}
OtherOps == {"FocusNextOtherAppWindow", "FocusPrevOtherAppWindow"}
AnyOps == {"FocusNextAnyAppWindow", "FocusPrevAnyAppWindow"}
NextOps == {"FocusNextSameAppWindow", "FocusNextOtherAppWindow", "FocusNextAnyAppWindow"}

DeltaOf(name) == IF name \in NextOps THEN 1 ELSE -1

\* position i moved k steps of d round a circle of n positions 1..n
Round(i, d, k, n) == ((i - 1 + d * k) % n) + 1

\* the first record met walking round items from position i by steps of d
\* that is in the set good; 0 when the circuit meets none
FirstRound(items, i, d, good) ==
    LET n == Len(items)
        Hit(k) == items[Round(i, d, k, n)] \in good
    IN IF \E k \in 1..n : Hit(k)
       THEN Round(i, d, CHOOSE k \in 1..n : Hit(k) /\ \A j \in 1..(k - 1) : ~Hit(j), n)
       ELSE 0

\* C3: same-class cycling.  With the active window at position i of the
\* group G of the snapshot records that are on the active workspace or pinned
\* and have its class, Next invokes the activation on G[(i+1) mod n] and Prev
\* on G[(i-1) mod n], on nothing else, and that window has the focus when
\* the activation succeeds.
C3_SameClassStep ==
    [][ (op'.name \in SameOps /\ op'.env.enum /\ focus # NoWindow)
        => LET st == State
               activeCls == ClassInstance(st, focus)
               Mine(it) == it.cls = activeCls
               G == SelectSeq(Restricted(st), Mine)
               i == PositionOf(st, G, focus)
               t == HandleOf(st, G[Round(i, DeltaOf(op'.name), 1, Len(G))])
           IN i > 0 => /\ ActivatedIn(calls') = <<t>>
                       /\ ret' = op'.env.act
                       /\ op'.env.act => focus' = t ]_vars

\* C3's case: of the windows [A1, A2, B1] of one workspace, A1 has the focus
\* again after a Next that succeeded, so the step from A2 wrapped
C3_Witness ==
    /\ op.name = "FocusNextSameAppWindow" /\ ret = TRUE /\ focus = 1
    /\ ActivatedIn(calls) = <<1>>
    /\ ClassInstance(State, 1) = ClassInstance(State, 2)
    /\ ClassInstance(State, 3) # ClassInstance(State, 1)
    /\ \A h \in 1..3 : WorkspaceIndex(State, h) = activeWs

\* the windows a primitive among prims was invoked on, as a set
Touched(cs, prims) == {cs[k].win : k \in {j \in 1..Len(cs) : cs[j].prim \in prims}}

\* C4: other-class cycling.  With the active window at position i of the
\* workspace-restricted snapshot R, the operation invokes the activation on
\* the first record met walking round R from i (by +1 for Next, -1 for Prev)
\* whose class is neither the active window's nor 'copyq.copyq', on nothing
\* else; and whatever R is, it never invokes the activation on a window of
\* the active class or of the denylisted class.
C4_OtherClassStep ==
    [][ (op'.name \in OtherOps /\ focus # NoWindow)
        => LET st == State
               R == Restricted(st)
               activeCls == ClassInstance(st, focus)
               good == {R[k] : k \in {j \in 1..Len(R) :
                            R[j].cls # activeCls /\ R[j].cls # COPYQ_CLS}}
               i == PositionOf(st, R, focus)
               j == IF i > 0 THEN FirstRound(R, i, DeltaOf(op'.name), good) ELSE 0
           IN /\ \A h \in Touched(calls', {"activate"}) :
                    ClassInstance(st, h) \notin {activeCls, COPYQ_CLS}
              /\ (op'.env.enum /\ j > 0)
                    => /\ ActivatedIn(calls') = <<HandleOf(st, R[j])>>
                       /\ ret' = op'.env.act
                       /\ op'.env.act => focus' = HandleOf(st, R[j]) ]_vars

\* C4's case: of the windows [A1, B1, CopyQ1] of one workspace, B1 has the
\* focus after a Prev that succeeded: from A1 the walk met CopyQ1 first
C4_Witness ==
    /\ op.name = "FocusPrevOtherAppWindow" /\ ret = TRUE /\ focus = 2
    /\ ActivatedIn(calls) = <<2>>
    /\ ClassInstance(State, 1) = <<"a", ".", "a">>
    /\ ClassInstance(State, 2) = <<"b", ".", "b">>
    /\ ClassInstance(State, 3) = COPYQ_CLS
    /\ \A h \in 1..3 : WorkspaceIndex(State, h) = activeWs

\* C5: any-class cycling.  With the active window at position i of the
\* workspace-restricted snapshot R, the operation invokes the activation on
\* the first record met walking round R from i that is neither of the
\* denylisted class nor the active window, on nothing else; when the active
\* window is all of R it returns false and invokes no primitive.
C5_AnyClassStep ==
    [][ (op'.name \in AnyOps /\ op'.env.enum /\ focus # NoWindow)
        => LET st == State
               R == Restricted(st)
               good == {R[k] : k \in {j \in 1..Len(R) :
                            R[j].cls # COPYQ_CLS /\ R[j].id # ToHexId(st, focus)}}
               i == PositionOf(st, R, focus)
               j == IF i > 0 THEN FirstRound(R, i, DeltaOf(op'.name), good) ELSE 0
           IN /\ j > 0 => /\ ActivatedIn(calls') = <<HandleOf(st, R[j])>>
                          /\ ret' = op'.env.act
                          /\ op'.env.act => focus' = HandleOf(st, R[j])
              /\ (i = 1 /\ Len(R) = 1) => (ret' = FALSE /\ calls' = <<>>) ]_vars

\* C5's case: on the two-window workspace [A1, B1] A1 has the focus after a
\* Next that succeeded, so the walk from B1 wrapped
C5_Witness ==
    /\ op.name = "FocusNextAnyAppWindow" /\ ret = TRUE /\ focus = 1
    /\ ActivatedIn(calls) = <<1>>
    /\ ClassInstance(State, 1) = <<"a", ".", "a">>
    /\ ClassInstance(State, 2) = <<"b", ".", "b">>
    /\ WorkspaceIndex(State, 1) = activeWs /\ WorkspaceIndex(State, 2) = activeWs
    /\ WorkspaceIndex(State, 3) \notin {activeWs, -1}

FocusOps == SameOps \cup OtherOps \cup AnyOps

\* no record of the workspace-restricted snapshot R is a candidate of the
\* operation: none of the active class (same-class), none of another class
\* that is not denylisted (other-class), none but the active window that is
\* not denylisted (any-class)
NoCandidate(name, st, R) ==
    IF name \in SameOps
    THEN \A k \in 1..Len(R) : R[k].cls # ClassInstance(st, st.focus)
    ELSE IF name \in OtherOps
    THEN \A k \in 1..Len(R) : R[k].cls \in {ClassInstance(st, st.focus), COPYQ_CLS}
    ELSE \A k \in 1..Len(R) : R[k].cls = COPYQ_CLS \/ R[k].id = ToHexId(st, st.focus)

\* C6: each of the six focus-cycle operations returns false and invokes
\* neither the activation nor the workspace switch when no window has the
\* focus, when the workspace-restricted snapshot is empty, or when none of
\* its records is a candidate.
C6_FocusFails ==
    [][ (/\ op'.name \in FocusOps
         /\ \/ focus = NoWindow
            \/ LET R == Restricted(State)
               IN  Len(R) = 0 \/ NoCandidate(op'.name, State, R))
        => /\ ret' = FALSE
           /\ Touched(calls', {"activate", "workspace.activate"}) = {} ]_vars

\* C6's case: of the windows [A1, A2, CopyQ1] of one workspace A1 has the
\* focus, and the other-class Next has gone round without a candidate
C6_Witness ==
    /\ op.name = "FocusNextOtherAppWindow" /\ op.env.enum /\ op.env.act
    /\ ret = FALSE /\ calls = <<>> /\ focus = 1
    /\ ClassInstance(State, 1) = <<"a", ".", "a">>
    /\ ClassInstance(State, 2) = <<"a", ".", "a">>
    /\ ClassInstance(State, 3) = COPYQ_CLS
    /\ \A h \in 1..3 : WorkspaceIndex(State, h) = activeWs

\* C1: in every snapshot the registry builds the ids of the records are
\* pairwise distinct, whatever source each window's id was resolved from.
C1_IdsDistinct ==
    (op.name = "ListWindows" /\ op.env.enum)
        => \A i, j \in 1..Len(snap) : i # j => snap[i].id # snap[j].id

\* a comes no later than b by (key, desk, cls, title, id), the strings as
\* localeCompare orders them
TupleBefore(a, b) ==
    \/ a.key < b.key
    \/ /\ a.key = b.key
       /\ \/ a.desk < b.desk
          \/ /\ a.desk = b.desk
             /\ \/ LocaleCompare(a.cls, b.cls) < 0
                \/ /\ LocaleCompare(a.cls, b.cls) = 0
                   /\ \/ LocaleCompare(a.title, b.title) < 0
                      \/ /\ LocaleCompare(a.title, b.title) = 0
                         /\ LocaleCompare(a.id, b.id) <= 0

SortedByTuple(items) ==
    \A i, j \in 1..Len(items) : i < j => TupleBefore(items[i], items[j])

KeyOrdered(items) ==
    \A i, j \in 1..Len(items) : items[i].key > items[j].key => i > j

\* C2: the snapshot is sorted ascending by (orderKey, workspaceIndex,
\* classKey, title, id), a record of a greater key never precedes one of a
\* smaller key, and as long as no window changes a second build yields the
\* same sequence, whatever the stacking order and the focus have become.
C2_SortedDeterministic ==
    (op.name = "ListWindows" /\ op.env.enum)
        => /\ SortedByTuple(snap)
           /\ KeyOrdered(snap)
           /\ snap = ListWindowsItems(State)

\* the eligible windows whose class is the input, trimmed and lower-cased
Matching(st, cls) ==
    {h \in DOMAIN st.win :
        IsTasklistWindow(st, h) /\ ClassInstance(st, h) = ToLowerCase(Trim(cls))}

\* the position of the first call of primitive prim in cs, 0 when there is none
FirstCall(cs, prim) ==
    IF \E k \in 1..Len(cs) : cs[k].prim = prim
    THEN CHOOSE k \in 1..Len(cs) :
            cs[k].prim = prim /\ \A j \in 1..(k - 1) : cs[j].prim # prim
    ELSE 0

\* the activation was invoked and returned (ok), or was invoked and raised (~ok)
ActivationWent(cs, ok) ==
    FirstCall(cs, "activate") > 0 /\ cs[FirstCall(cs, "activate")].ok = ok

\* C7, as the claim states it: FocusByCls returns 1 exactly when no eligible
\* window's class equals the trimmed, lower-cased input, 0 when a matching
\* window was picked and its activation succeeded, 2 when it was picked and
\* its activation failed.
C7_TriState ==
    [][ op'.name = "FocusByCls"
        => /\ ret' \in {0, 1, 2}
           /\ (ret' = 1) <=> (Matching(State, op'.id) = {})
           /\ ActivationWent(calls', TRUE) => ret' = 0
           /\ ActivationWent(calls', FALSE) => ret' = 2 ]_vars

\* C7, amended: FocusByCls returns 1 when the input is blank or when the
\* snapshot was built and holds no window of the class; 0 when a matching
\* window was picked and its activation succeeded; 2 when it was picked and
\* its activation failed, and also when building the snapshot raised, a
\* matching window or none; it never returns 1 when a matching window exists.
C7_TriStateOrError ==
    [][ op'.name = "FocusByCls"
        => LET M == Matching(State, op'.id)
               blank == Trim(op'.id) = <<>>
           IN /\ ret' \in {0, 1, 2}
              /\ ret' = 1 => M = {}
              /\ (M = {} /\ (op'.env.enum \/ blank)) => (ret' = 1 /\ calls' = <<>>)
              /\ (~op'.env.enum /\ ~blank) => (ret' = 2 /\ calls' = <<>>)
              /\ (M # {} /\ op'.env.enum)
                    => /\ Len(ActivatedIn(calls')) = 1
                       /\ ActivatedIn(calls')[1] \in M
                       /\ ret' = IF op'.env.act THEN 0 ELSE 2
              /\ ActivationWent(calls', TRUE) => ret' = 0
              /\ ActivationWent(calls', FALSE) => ret' = 2 ]_vars

\* C7's case: the enumeration raised while no window has the class asked
\* for, and the code is 2
C7_Witness ==
    /\ op.name = "FocusByCls" /\ ~op.env.enum
    /\ op.id = <<"c", ".", "c">>
    /\ Matching(State, op.id) = {}
    /\ ret = 2 /\ calls = <<>>

\* the first record of items whose window is in the set hs, as a window
FirstOf(st, items, hs) ==
    HandleOf(st, items[CHOOSE k \in 1..Len(items) :
                          /\ HandleOf(st, items[k]) \in hs
                          /\ \A j \in 1..(k - 1) : HandleOf(st, items[j]) \notin hs])

\* the windows on the active workspace or pinned
Here(st) == {h \in DOMAIN st.win : WorkspaceIndex(st, h) \in {st.activeWs, -1}}

\* C8: among the windows of the class asked for FocusByCls picks the first in
\* snapshot order that is on the active workspace or pinned and invokes no
\* workspace switch; only when there is none it picks the first in snapshot
\* order, switches to that window's workspace and then invokes the
\* activation on it; the code is 0 when the activation succeeds.
C8_PickPreference ==
    [][ (op'.name = "FocusByCls" /\ op'.env.enum /\ Matching(State, op'.id) # {})
        => LET st == State
               M == Matching(st, op'.id)
               all == ListWindowsItems(st)
               pick == IF M \cap Here(st) # {} THEN FirstOf(st, all, M \cap Here(st))
                       ELSE FirstOf(st, all, M)
               sw == FirstCall(calls', "workspace.activate")
           IN /\ ActivatedIn(calls') = <<pick>>
              /\ op'.env.act => (ret' = 0 /\ focus' = pick)
              /\ M \cap Here(st) # {} => (sw = 0 /\ activeWs' = activeWs)
              /\ M \cap Here(st) = {}
                    => /\ sw > 0 /\ sw < FirstCall(calls', "activate")
                       /\ calls'[sw].arg = <<st.win[pick].ws>>
                       /\ op'.env.switch => activeWs' = st.win[pick].ws ]_vars

\* C8's case: windows 2 and 3 have the class asked for and were both off the
\* active workspace; the workspace was switched, then window 2 activated
C8_Witness ==
    /\ op.name = "FocusByCls" /\ ret = 0
    /\ Matching(State, op.id) = {2, 3}
    /\ win[2].ws = AwayWs /\ win[3].ws = AwayWs /\ ~win[2].sticky /\ ~win[3].sticky
    /\ Len(calls) = 2
    /\ calls[1].prim = "workspace.activate" /\ calls[1].ok
    /\ calls[2].prim = "activate" /\ calls[2].win = 2
    /\ activeWs = AwayWs /\ focus = 2

\* the window an id resolves to: the eligible window whose id is the
\* normalized input; NoWindow when there is none
Resolved(st, id) ==
    IF \E h \in DOMAIN st.win :
          IsTasklistWindow(st, h) /\ ToHexId(st, h) = NormalizeIdString(id)
    THEN CHOOSE h \in DOMAIN st.win :
          IsTasklistWindow(st, h) /\ ToHexId(st, h) = NormalizeIdString(id)
    ELSE NoWindow

\* C9: ActivateById on a resolvable window that is not pinned and is on
\* another workspace than the active one invokes the switch to the window's
\* workspace before the activation; the activation is invoked whether the
\* switch returned or raised; for a pinned window or one on the active
\* workspace no switch is invoked.
C9_SwitchBeforeActivate ==
    [][ (op'.name = "ActivateById" /\ op'.env.enum /\ Resolved(State, op'.id) # NoWindow)
        => LET st == State
               h == Resolved(st, op'.id)
               sw == FirstCall(calls', "workspace.activate")
           IN /\ ActivatedIn(calls') = <<h>>
              /\ ret' = op'.env.act
              /\ IF ~st.win[h].sticky /\ st.win[h].ws # st.activeWs
                 THEN /\ sw > 0 /\ sw < FirstCall(calls', "activate")
                      /\ calls'[sw].arg = <<st.win[h].ws>>
                      /\ calls'[sw].ok = op'.env.switch
                      /\ activeWs' = IF op'.env.switch THEN st.win[h].ws ELSE activeWs
                 ELSE sw = 0 /\ activeWs' = activeWs ]_vars

\* C9's case: the switch to the window's workspace raised, the activation
\* was invoked nevertheless and the call returned true
C9_Witness ==
    /\ op.name = "ActivateById" /\ ret = TRUE
    /\ Len(calls) = 2
    /\ calls[1].prim = "workspace.activate" /\ ~calls[1].ok
    /\ calls[2].prim = "activate" /\ calls[2].ok
    /\ focus = calls[2].win
    /\ win[focus].ws # activeWs /\ ~win[focus].sticky

\* C10: ResizeById with width <= 0 or height <= 0 returns false and invokes
\* no primitive, so no window's geometry or minimized flag changes.
C10_RejectsNonPositive ==
    [][ (op'.name = "ResizeById" /\ (op'.nums[1] <= 0 \/ op'.nums[2] <= 0))
        => (ret' = FALSE /\ calls' = <<>> /\ win' = win) ]_vars

\* C10's case: a resize to width 0 of the minimized window 1, which resolves,
\* while move_resize_frame would have returned
C10_Witness ==
    /\ op.name = "ResizeById" /\ op.env.enum /\ op.env.resize
    /\ op.nums = <<0, 2>>
    /\ Resolved(State, op.id) = 1
    /\ win[1].minimized
    /\ ret = FALSE /\ calls = <<>>

----------------------------------------------------------------------------
(* MoveToWorkspaceById and SwitchWorkspace.  The workspaces are those of   *)
(* index 0..MaxWs; get_workspace_by_index gives null for any other index.  *)

\* the collaborator outcomes as Env has them, and whether
\* w.change_workspace_by_index and GLib.spawn_command_line_async return
EnvMore(e, s, a, r, m, sp) ==
    [enum |-> e, switch |-> s, act |-> a, resize |-> r, move |-> m, spawn |-> sp]

\* wm.get_workspace_by_index(idx) is a workspace
HasWorkspace(idx) == idx \in 0..MaxWs

\* w.change_workspace_by_index(idx, false), and what is returned
ChangeWorkspace(st, h, idx, env) ==
    Outcome(IF env.move THEN [st EXCEPT !.win[h].ws = idx] ELSE st,
            env.move,
            <<Call("change_workspace_by_index", h, <<idx>>, env.move)>>)

\* a move that asks for the pin before it resolves the workspace
MoveFoundPinnedFirst(st, h, idx, env) ==
    IF h = NoWindow THEN Fail(st)
    ELSE IF st.win[h].sticky THEN Outcome(st, TRUE, <<>>)
    ELSE IF ~HasWorkspace(idx) THEN Fail(st)
    ELSE ChangeWorkspace(st, h, idx, env)

\* _moveWindowToWorkspaceById once the window is looked up; the index
\* arrives as a 32-bit integer, which Number(index) | 0 leaves as it is
MoveFound(st, h, idx, env) ==
    IF h = NoWindow THEN Fail(st)
    ELSE IF ~HasWorkspace(idx) THEN Fail(st)
    ELSE IF st.win[h].sticky THEN Outcome(st, TRUE, <<>>)
    ELSE ChangeWorkspace(st, h, idx, env)

\* _moveWindowToWorkspaceById
MoveWindowToWorkspaceById(st, id, index, env) ==
    IF ~env.enum THEN Fail(st) ELSE MoveFound(st, FindWindowById(st, id), index, env)

\* the index as a caller writes it: of a workspace, negative, past the last
\* one; the collaborator outcomes that matter to a move
MoveToWorkspaceById ==
    \E id \in IdInputs, index \in {-1} \cup (0..(MaxWs + 1)),
       env \in {EnvMore(TRUE, TRUE, TRUE, TRUE, TRUE, TRUE),
                EnvMore(TRUE, TRUE, TRUE, TRUE, FALSE, TRUE),
                EnvMore(FALSE, TRUE, TRUE, TRUE, TRUE, TRUE)} :
        Done(Request("MoveToWorkspaceById", id, <<index>>, env),
             MoveWindowToWorkspaceById(State, id, index, env))

\* _switchWorkspace: ws.activate(timestamp), and what is returned
SwitchWorkspaceTo(st, idx, env) ==
    IF ~(idx >= 0) THEN Fail(st)
    ELSE IF ~HasWorkspace(idx) THEN Fail(st)
    ELSE Outcome(IF env.switch THEN [st EXCEPT !.activeWs = idx] ELSE st,
                 env.switch,
                 <<Call("workspace.activate", NoWindow, <<idx>>, env.switch)>>)

\* the index as for a move; the collaborator outcomes that matter to a switch
SwitchWorkspace ==
    \E index \in {-1} \cup (0..(MaxWs + 1)),
       env \in {Env(TRUE, TRUE, TRUE, TRUE), Env(TRUE, FALSE, TRUE, TRUE)} :
        Done(Request("SwitchWorkspace", <<>>, <<index>>, env),
             SwitchWorkspaceTo(State, index, env))

InitMove ==
    /\ \E d \in [1..MaxRegWin -> Desks], k \in [1..MaxRegWin -> BOOLEAN] :
          win = [h \in 1..MaxRegWin |->
                    [PlainWindow(h) EXCEPT !.ws = d[h].ws, !.sticky = d[h].sticky,
                                           !.skip = k[h]]]
    /\ actors = Identity(MaxRegWin)
    /\ focus \in 0..MaxRegWin
    /\ activeWs \in 0..MaxWs
    /\ clock = 0
    /\ Idle

SpecMove == InitMove /\ [][MoveToWorkspaceById \/ SwitchWorkspace \/ Reply]_vars

\* the move of the last call was of window h to the workspace idx
MovedTo(cs, h, idx) ==
    cs = <<Call("change_workspace_by_index", h, <<idx>>, TRUE)>>

\* C11 as stated: MoveToWorkspaceById returns true and invokes no workspace
\* change whenever the window of the id is pinned, whatever the index.
C11_PinnedAlwaysTrue ==
    [][ (op'.name = "MoveToWorkspaceById" /\ op'.env.enum
         /\ Resolved(State, op'.id) # NoWindow
         /\ win[Resolved(State, op'.id)].sticky)
        => (ret' = TRUE /\ calls' = <<>>) ]_vars

\* C11: MoveToWorkspaceById returns false, invokes no workspace change and
\* leaves every window where it is when the id or the workspace index does
\* not resolve, for a pinned window too; when both resolve and the window is
\* pinned it returns true and invokes no workspace change; otherwise it
\* invokes the change to that index on the window, and when the change
\* returns the window is on the workspace of that index and true is returned.
C11_MoveByCases ==
    [][ (op'.name = "MoveToWorkspaceById" /\ op'.env.enum)
        => LET h == Resolved(State, op'.id)
               idx == op'.nums[1]
           IN  IF h = NoWindow \/ ~HasWorkspace(idx)
               THEN ret' = FALSE /\ calls' = <<>> /\ win' = win
               ELSE IF win[h].sticky
               THEN ret' = TRUE /\ calls' = <<>> /\ win' = win
               ELSE /\ Len(calls') = 1
                    /\ calls'[1].prim = "change_workspace_by_index"
                    /\ calls'[1].win = h
                    /\ calls'[1].arg = <<idx>>
                    /\ ret' = calls'[1].ok
                    /\ calls'[1].ok => win'[h].ws = idx /\ ~win'[h].sticky
                    /\ ~calls'[1].ok => win' = win ]_vars

\* a window that is not pinned went from its workspace to another one
C11_Witness ==
    /\ op.name = "MoveToWorkspaceById"
    /\ ret = TRUE
    /\ \E h \in DOMAIN win : MovedTo(calls, h, op.nums[1]) /\ win[h].ws = op.nums[1]
                              /\ activeWs # op.nums[1]

----------------------------------------------------------------------------
(* LaunchHere and what it leaves registered.  A launch that spawned holds   *)
(* the 'window-created' subscription (handler), the 10 s timer (timer:     *)
(* pending, fired or removed), per watched window a 'notify::wm-class'     *)
(* subscription (subs) and a 5 s timer (subTimers), and per kitty window a *)
(* 100 ms resize timer (resizes).  acted lists the windows performActions   *)
(* ran on; stale tells that an id was released that was registered no more.*)
(* Timers are untimed: a pending one may fire whenever no handler runs (a   *)
(* window created 6 s after the launch has its 5 s timer pending when the  *)
(* 10 s timer fires).  A handler that raises is outside the model.         *)

KittyPath == <<"/","o","p","t","/","k","i","t","t","y","/","l","i","n","u","x","-",
               "p","a","c","k","a","g","e","/","b","i","n","/","k","i","t","t","y">>

\* String.prototype.includes
Includes(s, sub) ==
    \E i \in 0..(Len(s) - Len(sub)) : SubSeq(s, i + 1, i + Len(sub)) = sub

\* global.display.get_monitor_geometry(global.display.get_current_monitor())
Monitor == [width |-> 5, height |-> 4]

\* Math.max(...currentItems.map(it => it.key)), 0 for no item
RECURSIVE MaxKeyOf(_, _)
MaxKeyOf(items, i) ==
    IF i > Len(items) THEN 0
    ELSE IF i = Len(items) THEN items[i].key
    ELSE IF items[i].key > MaxKeyOf(items, i + 1) THEN items[i].key
    ELSE MaxKeyOf(items, i + 1)

\* State with what the launches hold
Tracker == [win |-> win, actors |-> actors, focus |-> focus, activeWs |-> activeWs,
            clock |-> clock, launches |-> launches]

\* the outcome n of what ran after o
Joined(o, n) == Outcome(n.st, n.ret, o.calls \o n.calls)

\* performActions: the move to the active workspace
MoveHere(st, h, env) ==
    IF WorkspaceIndex(st, h) # ActiveWorkspaceIndex(st) /\ WorkspaceIndex(st, h) # -1
    THEN MoveWindowToWorkspaceById(st, ToHexId(st, h), ActiveWorkspaceIndex(st), env)
    ELSE Outcome(st, FALSE, <<>>)

\* performActions: the activation
ActivateNew(o, h, env) == Joined(o, ActivateWindowById(o.st, ToHexId(o.st, h), env))

\* performActions of launch l on window h: o is what move and activation
\* left; the resize of a kitty window is left to a timer
PerformActions(o, l, h) ==
    Outcome([o.st EXCEPT !.launches[l].acted = Append(@, h),
                         !.launches[l].resizes =
                             IF Includes(o.st.launches[l].path, KittyPath)
                             THEN @ \cup {h} ELSE @],
            o.ret, o.calls)

\* releases that leave the class-change subscriptions connected
ReleaseNoNotify(L, kind, h) ==
    IF kind = "handler"
    THEN [L EXCEPT !.handler = FALSE, !.stale = @ \/ ~L.handler]
    ELSE IF kind = "timer"
    THEN [L EXCEPT !.timer = IF @ = "pending" THEN "removed" ELSE @,
                   !.stale = @ \/ L.timer # "pending"]
    ELSE L

\* global.display.disconnect(handlerId), GLib.source_remove(timeoutId),
\* win.disconnect(notifyId) of launch L
Release(L, kind, h) ==
    IF kind = "handler"
    THEN [L EXCEPT !.handler = FALSE, !.stale = @ \/ ~L.handler]
    ELSE IF kind = "timer"
    THEN [L EXCEPT !.timer = IF @ = "pending" THEN "removed" ELSE @,
                   !.stale = @ \/ L.timer # "pending"]
    ELSE [L EXCEPT !.subs = @ \ {h}, !.stale = @ \/ h \notin L.subs]

\* releases through ids that all launches share: those of the first launch
RECURSIVE ReleasingShared(_, _, _, _)
ReleasingShared(o, l, kinds, h) ==
    IF kinds = <<>> THEN o
    ELSE ReleasingShared(Outcome([o.st EXCEPT !.launches[1] = Release(@, Head(kinds), h)],
                                 o.ret, o.calls),
                         l, Tail(kinds), h)

\* the releases of kinds, in order, by a handler of launch l
RECURSIVE Releasing(_, _, _, _)
Releasing(o, l, kinds, h) ==
    IF kinds = <<>> THEN o
    ELSE Releasing(Outcome([o.st EXCEPT !.launches[l] = Release(@, Head(kinds), h)],
                           o.ret, o.calls),
                   l, Tail(kinds), h)

\* a 'window-created' handler that does not look at the order key
OnWindowCreatedAnyKey(st, l, h, env) ==
    IF ~st.launches[l].handler THEN Outcome(st, FALSE, <<>>)
    ELSE IF ClassInstance(st, h) = ToLowerCase(st.launches[l].appId)
    THEN Releasing(PerformActions(ActivateNew(MoveHere(st, h, env), h, env), l, h),
                   l, <<"handler", "timer">>, h)
    ELSE Outcome([st EXCEPT !.launches[l].subs = @ \cup {h},
                            !.launches[l].subTimers = @ \cup {h}], FALSE, <<>>)

\* the 'window-created' handler of launch l, for the new window h
OnWindowCreated(st, l, h, env) ==
    IF ~st.launches[l].handler THEN Outcome(st, FALSE, <<>>)
    ELSE IF ClassInstance(st, h) = ToLowerCase(st.launches[l].appId)
            /\ CreationOrderKey(st, h) > st.launches[l].maxKey
    THEN Releasing(PerformActions(ActivateNew(MoveHere(st, h, env), h, env), l, h),
                   l, <<"handler", "timer">>, h)
    ELSE IF CreationOrderKey(st, h) > st.launches[l].maxKey
    THEN Outcome([st EXCEPT !.launches[l].subs = @ \cup {h},
                            !.launches[l].subTimers = @ \cup {h}], FALSE, <<>>)
    ELSE Outcome(st, FALSE, <<>>)

\* the 'notify::wm-class' handler launch l connected to window h
OnClassNotify(st, l, h, env) ==
    IF h \notin st.launches[l].subs THEN Outcome(st, FALSE, <<>>)
    ELSE IF ClassInstance(st, h) = ToLowerCase(st.launches[l].appId)
    THEN Releasing(PerformActions(ActivateNew(MoveHere(st, h, env), h, env), l, h),
                   l, <<"handler", "notify", "timer">>, h)
    ELSE Outcome(st, FALSE, <<>>)

\* the emission of a signal for window h: the handlers of the launches from
\* l on, in the order they were connected
RECURSIVE Emit(_, _, _, _, _)
Emit(o, l, h, env, signal) ==
    IF l > Len(o.st.launches) THEN o
    ELSE Emit(Joined(o, IF signal = "window-created"
                        THEN OnWindowCreated(o.st, l, h, env)
                        ELSE OnClassNotify(o.st, l, h, env)),
              l + 1, h, env, signal)

\* a launch that registers before it spawns
LaunchHereCallEager(st, path, appId, env) ==
    Outcome([st EXCEPT !.launches =
                Append(@, [path |-> path, appId |-> appId,
                           maxKey |-> MaxKeyOf(ListWindowsItems(st), 1),
                           handler |-> TRUE, timer |-> "pending",
                           subs |-> {}, subTimers |-> {}, resizes |-> {},
                           acted |-> <<>>, stale |-> FALSE])],
            env.spawn, <<Call("spawn_command_line_async", NoWindow, path, env.spawn)>>)

\* _launchHere once the snapshot is built
LaunchHereCall(st, path, appId, env) ==
    IF ~env.spawn
    THEN Outcome(st, FALSE, <<Call("spawn_command_line_async", NoWindow, path, FALSE)>>)
    ELSE Outcome([st EXCEPT !.launches =
                     Append(@, [path |-> path, appId |-> appId,
                                maxKey |-> MaxKeyOf(ListWindowsItems(st), 1),
                                handler |-> TRUE, timer |-> "pending",
                                subs |-> {}, subTimers |-> {}, resizes |-> {},
                                acted |-> <<>>, stale |-> FALSE])],
                 TRUE, <<Call("spawn_command_line_async", NoWindow, path, TRUE)>>)

\* a call or an event is handled when no handler runs; the handler ran from
\* Tracker and left out; escaped: it let an exception out
Handled(req, out, escaped) ==
    /\ op = NoRequest
    /\ win' = out.st.win
    /\ actors' = out.st.actors
    /\ focus' = out.st.focus
    /\ activeWs' = out.st.activeWs
    /\ clock' = out.st.clock
    /\ launches' = out.st.launches
    /\ op' = req
    /\ ret' = out.ret
    /\ calls' = out.calls
    /\ snap' = <<>>
    /\ thrown' = escaped

\* the IPC method, while fewer than n launches were made, of a program of
\* paths and a class of appIds; this._listWindowsItems() of line 1349 is in no try, so a raise of
\* the enumeration leaves the method
LaunchHereOf(n, paths, appIds) ==
    \E path \in paths, appId \in appIds,
       env \in {EnvMore(TRUE, TRUE, TRUE, TRUE, TRUE, TRUE),
                EnvMore(TRUE, TRUE, TRUE, TRUE, TRUE, FALSE),
                EnvMore(FALSE, TRUE, TRUE, TRUE, TRUE, TRUE)} :
        /\ Len(launches) < n
        /\ Handled(Request("LaunchHere", path, <<appId>>, env),
                   IF env.enum THEN LaunchHereCall(Tracker, path, appId, env)
                   ELSE Outcome(Tracker, FALSE, <<>>),
                   ~env.enum)

\* at most MaxLaunch launches, of kitty or another program, of the class A.a
LaunchHere == LaunchHereOf(MaxLaunch, {<<"x">>, KittyPath}, {<<"A", ".", "a">>})

\* the window system creates window h and emits 'window-created'
WindowCreated ==
    \E h \in DOMAIN win,
       env \in {EnvMore(TRUE, TRUE, TRUE, TRUE, TRUE, TRUE),
                EnvMore(TRUE, TRUE, TRUE, TRUE, FALSE, TRUE),
                EnvMore(TRUE, TRUE, FALSE, TRUE, TRUE, TRUE)} :
        /\ \A i \in 1..Len(actors) : actors[i] # h
        /\ Handled(Request("window-created", <<>>, <<h>>, env),
                   Emit(Outcome([Tracker EXCEPT !.actors = Append(@, h)], FALSE, <<>>),
                        1, h, env, "window-created"),
                   FALSE)

\* the client of window h sets its WM_CLASS to the class launched, which
\* emits 'notify::wm-class'
ClassChanged ==
    \E h \in DOMAIN win, c \in {NameA},
       env \in {EnvMore(TRUE, TRUE, TRUE, TRUE, TRUE, TRUE),
                EnvMore(TRUE, TRUE, TRUE, TRUE, FALSE, TRUE),
                EnvMore(TRUE, TRUE, FALSE, TRUE, TRUE, TRUE)} :
        /\ \E i \in 1..Len(actors) : actors[i] = h
        /\ win[h].wmcls # c
        /\ Handled(Request("notify::wm-class", <<>>, <<h>>, env),
                   Emit(Outcome([Tracker EXCEPT !.win[h].inst = c, !.win[h].wmcls = c],
                                FALSE, <<>>),
                        1, h, env, "notify::wm-class"),
                   FALSE)

\* a 5 s timer that gives the whole launch up
SubTimeoutReleasingAll ==
    \E l \in 1..Len(launches), h \in DOMAIN win :
        /\ h \in launches[l].subTimers
        /\ Handled(Request("sub-timeout", <<>>, <<l, h>>, EnvMore(TRUE, TRUE, TRUE, TRUE, TRUE, TRUE)),
                   Releasing(Outcome([Tracker EXCEPT !.launches[l].subTimers = @ \ {h}],
                                     FALSE, <<>>),
                             l, <<"notify", "handler", "timer">>, h),
                   FALSE)

\* the 5 s timer of launch l for window h fires
SubTimeout ==
    \E l \in 1..Len(launches), h \in DOMAIN win :
        /\ h \in launches[l].subTimers
        /\ Handled(Request("sub-timeout", <<>>, <<l, h>>, EnvMore(TRUE, TRUE, TRUE, TRUE, TRUE, TRUE)),
                   Releasing(Outcome([Tracker EXCEPT !.launches[l].subTimers = @ \ {h}],
                                     FALSE, <<>>),
                             l, <<"notify">>, h),
                   FALSE)

\* the 10 s timer of launch l fires
OverallTimeout ==
    \E l \in 1..Len(launches) :
        /\ launches[l].timer = "pending"
        /\ Handled(Request("timeout", <<>>, <<l>>, EnvMore(TRUE, TRUE, TRUE, TRUE, TRUE, TRUE)),
                   Releasing(Outcome([Tracker EXCEPT !.launches[l].timer = "fired"],
                                     FALSE, <<>>),
                             l, <<"handler">>, NoWindow),
                   FALSE)

\* the 100 ms timer of launch l for the kitty window h fires
KittyResize ==
    \E l \in 1..Len(launches), h \in DOMAIN win,
       env \in {EnvMore(TRUE, TRUE, TRUE, TRUE, TRUE, TRUE)} :
        /\ h \in launches[l].resizes
        /\ Handled(Request("resize-timeout", <<>>, <<l, h>>, env),
                   ResizeWindowById([Tracker EXCEPT !.launches[l].resizes = @ \ {h}],
                                    ToHexId(Tracker, h),
                                    (Monitor.width * 4) \div 10, Monitor.height \div 2, env),
                   FALSE)

\* an X11 session whose windows have no stable sequence, so that the order
\* key is the X11 id: window 1 is there and has the focus; the windows from
\* 2 on are yet to be created, each <<class, workspace, pinned, skip_taskbar,
\* X11 id below that of window 1>>: of the class launched (on the active
\* workspace, off it, pinned, not in the task list, with an older id) or of
\* another class (off the active workspace, on it)
InitLaunch ==
    /\ \E v \in [2..(MaxRegWin + 1) ->
                    {<<NameA, 0, FALSE, FALSE, FALSE>>, <<NameA, AwayWs, FALSE, FALSE, FALSE>>,
                     <<NameA, 0, TRUE, FALSE, FALSE>>, <<NameA, 0, FALSE, TRUE, FALSE>>,
                     <<NameA, AwayWs, FALSE, FALSE, TRUE>>,
                     <<NameB, AwayWs, FALSE, FALSE, FALSE>>, <<NameB, 0, FALSE, FALSE, FALSE>>}] :
          win = [h \in 1..(MaxRegWin + 1) |->
                    IF h = 1
                    THEN [PlainWindow(h) EXCEPT !.seq = -1, !.xid = MaxRegWin + 1,
                                                !.inst = NameB, !.wmcls = NameB]
                    ELSE [PlainWindow(h) EXCEPT !.seq = -1,
                             !.xid = IF v[h][5] THEN h - 1 ELSE MaxRegWin + h,
                             !.inst = v[h][1], !.wmcls = v[h][1],
                             !.ws = v[h][2], !.sticky = v[h][3], !.skip = v[h][4]]]
    /\ actors = <<1>>
    /\ focus = 1
    /\ activeWs = 0
    /\ clock = 0
    /\ Idle

SpecLaunch ==
    InitLaunch /\ [][LaunchHere \/ WindowCreated \/ ClassChanged \/ SubTimeout
                        \/ OverallTimeout \/ KittyResize \/ Reply]_vars

\* a handler returns, and the main loop dispatches a timer that is due even
\* when calls and signals keep arriving: strong fairness of SubTimeout,
\* OverallTimeout and KittyResize, each written with the state predicate
\* that is its enabling condition and the step that is its firing
SpecLaunchFair ==
    /\ SpecLaunch
    /\ WF_vars(Reply)
    /\ ([]<>(op = NoRequest /\ \E l \in 1..Len(launches) : launches[l].subTimers # {}))
          => []<><<op'.name = "sub-timeout">>_vars
    /\ ([]<>(op = NoRequest /\ \E l \in 1..Len(launches) : launches[l].timer = "pending"))
          => []<><<op'.name = "timeout">>_vars
    /\ ([]<>(op = NoRequest /\ \E l \in 1..Len(launches) : launches[l].resizes # {}))
          => []<><<op'.name = "resize-timeout">>_vars

\* C12: no IPC call lets an exception out of its handler: each returns a
\* result of its declared type whatever collaborator call raises.
C12_NoExceptionEscapes == thrown = FALSE

\* C13: a LaunchHere call that built its snapshot returns true when the spawn
\* returns, and then holds the 'window-created' subscription and the overall
\* timer and nothing else; it returns false when the spawn raises, and then
\* no subscription and no timer is registered.
C13_SpawnDecides ==
    [][ (op'.name = "LaunchHere" /\ ~thrown')
        => IF op'.env.spawn
           THEN /\ ret' = TRUE
                /\ Len(launches') = Len(launches) + 1
                /\ SubSeq(launches', 1, Len(launches)) = launches
                /\ launches'[Len(launches')].handler
                /\ launches'[Len(launches')].timer = "pending"
                /\ launches'[Len(launches')].subs = {}
                /\ launches'[Len(launches')].subTimers = {}
                /\ launches'[Len(launches')].acted = <<>>
           ELSE ret' = FALSE /\ launches' = launches ]_vars

\* the spawn raised: false, and nothing is registered
C13_Witness ==
    /\ op.name = "LaunchHere"
    /\ ~thrown
    /\ ~op.env.spawn
    /\ ret = FALSE
    /\ launches = <<>>

\* the elements of a sequence
Range(s) == {s[i] : i \in 1..Len(s)}

\* C14: a window whose order key is not above the threshold of a launch (the
\* greatest key of the snapshot taken before the spawn) is never acted on by
\* that launch and never under its class-change watch, whatever its class.
C14_OldKeyIgnored ==
    \A l \in 1..Len(launches), h \in DOMAIN win :
        CreationOrderKey(State, h) <= launches[l].maxKey
        => /\ h \notin Range(launches[l].acted)
           /\ h \notin launches[l].subs
           /\ h \notin launches[l].subTimers

\* a window of the class launched was created with a key below the threshold
\* and the handler of the launch, still connected, left it alone
C14_Witness ==
    /\ op.name = "window-created"
    /\ Len(launches) = 1
    /\ launches[1].handler
    /\ ClassInstance(State, op.nums[1]) = ToLowerCase(launches[1].appId)
    /\ CreationOrderKey(State, op.nums[1]) <= launches[1].maxKey
    /\ launches[1].acted = <<>>
    /\ calls = <<>>

\* C15: when the first launch matches a window (on its creation or on a class
\* change) and the primitives return, performActions invokes the move to the
\* active workspace first if the window is off it and not pinned, then the
\* activation; afterwards the window is on the active workspace or pinned and
\* has the focus.
C15_MoveThenActivate ==
    [][ (/\ op'.name \in {"window-created", "notify::wm-class"}
         /\ Len(launches) >= 1
         /\ launches'[1].acted # launches[1].acted
         /\ op'.env.move /\ op'.env.act)
        => /\ Len(calls') >= 1
           /\ IF WorkspaceIndex(State, op'.nums[1]) \notin {activeWs, -1}
              THEN /\ Len(calls') >= 2
                   /\ calls'[1].prim = "change_workspace_by_index"
                   /\ calls'[1].win = op'.nums[1]
                   /\ calls'[1].arg = <<activeWs>>
                   /\ calls'[2].prim = "activate"
                   /\ calls'[2].win = op'.nums[1]
              ELSE /\ calls'[1].prim = "activate"
                   /\ calls'[1].win = op'.nums[1]
           /\ WorkspaceIndex([State EXCEPT !.win = win'], op'.nums[1]) \in {activeWs', -1}
           /\ focus' = op'.nums[1] ]_vars

\* launch l holds none of its 'window-created' subscription, its class-change
\* subscriptions, its overall timer and its sub-timeout timers
HoldsNothing(l) ==
    /\ ~launches[l].handler
    /\ launches[l].timer # "pending"
    /\ launches[l].subs = {}
    /\ launches[l].subTimers = {}

\* C17: the step in which a launch matches a window (its performActions
\* runs) leaves the launch with no subscription and no timer: the
\* 'window-created' subscription, every class-change subscription, the
\* overall timer and every sub-timeout timer are released in that step.
C17_MatchReleasesAll ==
    [][ \A l \in 1..Len(launches) :
           launches'[l].acted # launches[l].acted
           => (/\ ~launches'[l].handler
               /\ launches'[l].timer # "pending"
               /\ launches'[l].subs = {}
               /\ launches'[l].subTimers = {}) ]_vars

\* C18: performActions runs at most once per launch.
C18_AtMostOneMatch == \A l \in 1..Len(launches) : Len(launches[l].acted) <= 1

\* C19: a launch whose overall timer fired (which a match would have removed)
\* has matched no window and never does.
C19_AbandonedStaysAbandoned ==
    \A l \in 1..Len(launches) : launches[l].timer = "fired" => launches[l].acted = <<>>

\* C20: every launch that registered something comes to hold nothing: no
\* subscription, no timer.
C20_EventuallyReleased ==
    \A l \in 1..MaxLaunch :
        (Len(launches) >= l) ~> (Len(launches) >= l /\ HoldsNothing(l) /\ launches[l].resizes = {})

\* the last timer of a launch that watched a window and matched none has
\* fired: nothing is held
C20_Witness ==
    /\ op.name = "sub-timeout"
    /\ Len(launches) = 1
    /\ launches[1].timer = "fired"
    /\ launches[1].acted = <<>>
    /\ HoldsNothing(1)

----------------------------------------------------------------------------
(* _normalizeIdString on the ids _toHexId gives: one window whose X11 id or *)
(* stable sequence is any number of 1..MaxIdNumber, its id written as       *)
(* listed, in upper case, and without the prefix in either case.            *)

\* String.prototype.toUpperCase, per character (for writing inputs)
ToUpperCase(s) ==
    [i \in 1..Len(s) |->
        IF IndexIn(s[i], LowerAlpha) > 0 THEN UpperAlpha[IndexIn(s[i], LowerAlpha)] ELSE s[i]]

\* _normalizeIdString applied to the id of window 1 as a caller may write it:
\* as listed, in upper case, without the prefix in either case; ret is the
\* string returned
NormalizeId ==
    \E id \in {ToHexId(State, 1), ToUpperCase(ToHexId(State, 1)),
               Slice(ToHexId(State, 1), 2), ToUpperCase(Slice(ToHexId(State, 1), 2))} :
        /\ op = NoRequest
        /\ op' = Request("_normalizeIdString", id, <<>>, Env(TRUE, TRUE, TRUE, TRUE))
        /\ ret' = NormalizeIdString(id)
        /\ calls' = <<>>
        /\ snap' = <<>>
        /\ thrown' = FALSE
        /\ UNCHANGED <<win, actors, focus, activeWs, clock, launches>>

InitNormalize ==
    /\ \E n \in 1..MaxIdNumber, x11 \in BOOLEAN :
          win = [h \in 1..1 |->
                    [PlainWindow(h) EXCEPT !.xid = IF x11 THEN n ELSE 0,
                                           !.seq = IF x11 THEN 1 ELSE n]]
    /\ actors = <<1>>
    /\ focus = 0
    /\ activeWs = 0
    /\ clock = 0
    /\ Idle

SpecNormalize == InitNormalize /\ [][NormalizeId \/ Reply]_vars

\* C16: _normalizeIdString gives the id of a window with an X11 id or a
\* stable sequence back unchanged, and gives that same canonical id ('0x'
\* and lower-case digits) for the id written in upper case and for the id
\* written without the prefix, in either case.
C16_NormalizeRoundTrip ==
    op.name = "_normalizeIdString" => ret = ToHexId(State, 1)

\* an id with a letter digit, written in upper case without the prefix, came
\* back canonical
C16_Witness ==
    /\ op.name = "_normalizeIdString"
    /\ op.id = <<"1", "F">>
    /\ ret = <<"0", "x", "1", "f">>
    /\ ToHexId(State, 1) = ret

\* C21: a sub-timeout that fires while its window is still under the
\* class-change watch releases that window's class-change subscription and
\* nothing else: the launch keeps its 'window-created' subscription, its
\* overall timer and its other watches as they were, and no window changes;
\* and a launch whose 'window-created' subscription is connected matches a
\* window created with the class launched and a key above the threshold.
C21_SubTimeoutReleasesOne ==
    [][ /\ (op'.name = "sub-timeout" /\ op'.nums[2] \in launches[op'.nums[1]].subs)
           => /\ launches' = [launches EXCEPT
                                 ![op'.nums[1]].subs = @ \ {op'.nums[2]},
                                 ![op'.nums[1]].subTimers = @ \ {op'.nums[2]}]
              /\ win' = win /\ focus' = focus /\ activeWs' = activeWs
        /\ op'.name = "window-created"
            => \A l \in 1..Len(launches) :
                  (/\ launches[l].handler
                   /\ ClassInstance(State, op'.nums[1]) = ToLowerCase(launches[l].appId)
                   /\ CreationOrderKey(State, op'.nums[1]) > launches[l].maxKey)
                  => launches'[l].acted = Append(launches[l].acted, op'.nums[1]) ]_vars

\* a window of another class was watched until its sub-timeout; the window
\* created after that, of the class launched, is matched
C21_Witness ==
    /\ op.name = "window-created"
    /\ Len(launches) = 1
    /\ launches[1].acted = <<op.nums[1]>>
    /\ \E h \in DOMAIN win :
          /\ h # op.nums[1]
          /\ \E i \in 1..Len(actors) : actors[i] = h
          /\ IsTasklistWindow(State, h)
          /\ CreationOrderKey(State, h) > launches[1].maxKey
          /\ ClassInstance(State, h) # ToLowerCase(launches[1].appId)
          /\ h \notin launches[1].subs
          /\ h \notin launches[1].subTimers

\* C24: no handler of a launch disconnects a subscription that is already
\* disconnected or removes a timer that was already removed or has fired.
C24_ReleasedOnce == \A l \in 1..Len(launches) : ~launches[l].stale

RECURSIVE AnyAppRun(_, _, _)
AnyAppRun(st, delta, n) ==
    IF n = 0 THEN <<>>
    ELSE LET o == FocusRelativeAnyAppWindow(st, delta, Env(TRUE, TRUE, TRUE, TRUE))
         IN <<o>> \o AnyAppRun(o.st, delta, n - 1)

\* C25: from an active window that is not denylisted and is one of the k >= 2
\* non-denylisted records of the workspace-restricted snapshot, k consecutive
\* any-class Next calls all succeed, invoke the activation once each, on each
\* of the k windows once, the last on the starting window; so do k Prev
\* calls, which visit the windows in the reverse order.
C25_FullCircle ==
    LET st == State
        R == Restricted(st)
        good == {j \in 1..Len(R) : R[j].cls # COPYQ_CLS}
        k == Cardinality(good)
        fwd == AnyAppRun(st, 1, k)
        bwd == AnyAppRun(st, -1, k)
    IN (/\ focus # NoWindow
        /\ ClassInstance(st, focus) # COPYQ_CLS
        /\ PositionOf(st, R, focus) > 0
        /\ k >= 2)
       => /\ \A n \in 1..k :
                /\ fwd[n].ret = TRUE /\ ActivatedIn(fwd[n].calls) = <<fwd[n].st.focus>>
                /\ bwd[n].ret = TRUE /\ ActivatedIn(bwd[n].calls) = <<bwd[n].st.focus>>
          /\ {fwd[n].st.focus : n \in 1..k} = {HandleOf(st, R[j]) : j \in good}
          /\ {bwd[n].st.focus : n \in 1..k} = {HandleOf(st, R[j]) : j \in good}
          /\ fwd[k].st.focus = focus /\ bwd[k].st.focus = focus
          /\ \A n \in 1..(k - 1) : bwd[n].st.focus = fwd[k - n].st.focus
          /\ fwd[k].st.win = win /\ fwd[k].st.activeWs = activeWs

\* C25's case: the workspace holds [A1, CopyQ2, B3]; an any-class Next has
\* just brought the focus to B3, and two more bring it to A1 and back to B3
C25_Witness ==
    /\ op.name = "FocusNextAnyAppWindow" /\ ret = TRUE /\ focus = 3
    /\ ClassInstance(State, 1) = <<"a", ".", "a">>
    /\ ClassInstance(State, 2) = COPYQ_CLS
    /\ ClassInstance(State, 3) = <<"b", ".", "b">>
    /\ \A h \in 1..3 : WorkspaceIndex(State, h) = activeWs
    /\ AnyAppRun(State, 1, 2)[1].st.focus = 1
    /\ AnyAppRun(State, 1, 2)[2].st.focus = 3

----------------------------------------------------------------------------
(* The listing and the operations by id on MaxRegWin windows of a Wayland   *)
(* session (id 0x<h>).  The last is a plain window; each other has one of   *)
(* these looks: both native halves of the class, one of them, or none,      *)
(* with or without an application the tracker knows; a window on another    *)
(* workspace; a desktop background, a dock, a skip-taskbar window.          *)

InitById ==
    /\ \E look \in [1..(MaxRegWin - 1) ->
            {[inst |-> <<"A">>, wmcls |-> <<"b">>, app |-> <<"c">>, wtype |-> "NORMAL", skip |-> FALSE, ws |-> 0],
             [inst |-> <<"a">>, wmcls |-> <<>>, app |-> <<"C">>, wtype |-> "NORMAL", skip |-> FALSE, ws |-> 0],
             [inst |-> <<>>, wmcls |-> <<"b">>, app |-> <<"c">>, wtype |-> "NORMAL", skip |-> FALSE, ws |-> 0],
             [inst |-> <<>>, wmcls |-> <<>>, app |-> <<"C">>, wtype |-> "NORMAL", skip |-> FALSE, ws |-> 0],
             [inst |-> <<"a">>, wmcls |-> <<>>, app |-> <<>>, wtype |-> "NORMAL", skip |-> FALSE, ws |-> 0],
             [inst |-> <<>>, wmcls |-> <<>>, app |-> <<>>, wtype |-> "NORMAL", skip |-> FALSE, ws |-> 0],
             [inst |-> <<"a">>, wmcls |-> <<"a">>, app |-> <<>>, wtype |-> "NORMAL", skip |-> FALSE, ws |-> AwayWs],
             [inst |-> <<"a">>, wmcls |-> <<"a">>, app |-> <<>>, wtype |-> "DESKTOP", skip |-> FALSE, ws |-> 0],
             [inst |-> <<"a">>, wmcls |-> <<"a">>, app |-> <<>>, wtype |-> "DOCK", skip |-> FALSE, ws |-> 0],
             [inst |-> <<"a">>, wmcls |-> <<"a">>, app |-> <<>>, wtype |-> "NORMAL", skip |-> TRUE, ws |-> AwayWs]}] :
          win = [h \in 1..MaxRegWin |->
                    IF h = MaxRegWin THEN PlainWindow(h)
                    ELSE [PlainWindow(h) EXCEPT
                             !.inst = look[h].inst, !.wmcls = look[h].wmcls,
                             !.app = look[h].app, !.wtype = look[h].wtype,
                             !.skip = look[h].skip, !.ws = look[h].ws]]
    /\ actors = Identity(MaxRegWin)
    /\ focus = NoWindow
    /\ activeWs = 0
    /\ clock = 0
    /\ Idle

SpecById ==
    InitById /\ [][ListWindows \/ ActivateById \/ ResizeById \/ MoveToWorkspaceById \/ Reply]_vars

\* the string, or 'unknown' when it is missing
OrUnknown(x) == IF x # <<>> THEN x ELSE <<"u","n","k","n","o","w","n">>

\* C23: the class of every listed window is lower-case 'instance.class':
\* the two native halves when both are present; the application id for both
\* halves when a native half is missing and the tracker knows the
\* application; 'unknown' for a half that is missing on both paths.
C23_AppIdForBothHalves ==
    (op.name = "ListWindows" /\ op.env.enum)
    => \A k \in 1..Len(snap) :
          LET w == win[HandleOf(State, snap[k])]
          IN snap[k].cls =
                IF w.inst # <<>> /\ w.wmcls # <<>>
                THEN ToLowerCase(w.inst) \o <<".">> \o ToLowerCase(w.wmcls)
                ELSE IF w.app # <<>>
                THEN ToLowerCase(w.app) \o <<".">> \o ToLowerCase(w.app)
                ELSE ToLowerCase(OrUnknown(w.inst)) \o <<".">> \o ToLowerCase(OrUnknown(w.wmcls))

\* the operations that look a window up by the id they are given
ByIdOps == {"ActivateById", "ResizeById", "MoveToWorkspaceById"}

\* C27: an operation by id invokes its primitives on eligible windows only;
\* and given an id that only windows the eligibility predicate excludes
\* carry, it returns false, invokes nothing and changes nothing.
C27_IneligibleUntouched ==
    [][ op'.name \in ByIdOps
        => /\ \A k \in 1..Len(calls') : IsTasklistWindow(State, calls'[k].win)
           /\ (/\ \E h \in DOMAIN win :
                     ToLowerCase(ToHexId(State, h)) = NormalizeIdString(op'.id)
               /\ \A h \in DOMAIN win :
                     ToLowerCase(ToHexId(State, h)) = NormalizeIdString(op'.id)
                        => ~IsTasklistWindow(State, h))
              => /\ ret' = FALSE /\ calls' = <<>>
                 /\ win' = win /\ actors' = actors
                 /\ focus' = focus /\ activeWs' = activeWs ]_vars

\* C27's case: window 1 is a dock on another workspace; an ActivateById of
\* its id, with every collaborator working, gave false and invoked nothing
C27_Witness ==
    /\ op.name = "ActivateById" /\ op.id = <<"0", "x", "1">>
    /\ op.env = Env(TRUE, TRUE, TRUE, TRUE)
    /\ win[1].wtype = "DOCK"
    /\ ToHexId(State, 1) = <<"0", "x", "1">>
    /\ ret = FALSE /\ calls = <<>> /\ focus = NoWindow /\ activeWs = 0

----------------------------------------------------------------------------
(* Two launches in flight, of a program that is not kitty (no resize is    *)
(* scheduled) and of the classes A.a and B.b, on the session of InitLaunch; *)
(* the windows yet to be created are of class a or b, on the active         *)
(* workspace or off it.                                                     *)

InitConcurrent ==
    /\ \E v \in [2..(MaxRegWin + 1) ->
                    {<<NameA, 0>>, <<NameB, 0>>, <<NameB, AwayWs>>}] :
          win = [h \in 1..(MaxRegWin + 1) |->
                    IF h = 1
                    THEN [PlainWindow(h) EXCEPT !.seq = -1, !.xid = MaxRegWin + 1,
                                                !.inst = NameCopyQ, !.wmcls = NameCopyQ]
                    ELSE [PlainWindow(h) EXCEPT !.seq = -1, !.xid = MaxRegWin + h,
                             !.inst = v[h][1], !.wmcls = v[h][1], !.ws = v[h][2]]]
    /\ actors = <<1>>
    /\ focus = 1
    /\ activeWs = 0
    /\ clock = 0
    /\ Idle

SpecConcurrent ==
    InitConcurrent
    /\ [][LaunchHereOf(MaxLaunch + 1, {<<"x">>}, {<<"A", ".", "a">>, <<"B", ".", "b">>})
            \/ WindowCreated \/ ClassChanged \/ SubTimeout
            \/ OverallTimeout \/ Reply]_vars

\* the steps that are the firing of a timer of a launch
TimerSteps == {"sub-timeout", "timeout", "resize-timeout"}

\* C22: whatever step is taken, every launch m in flight keeps its threshold
\* (and what it launched); a timer of another launch and a later LaunchHere
\* leave everything launch m holds as it was; and unless launch m itself
\* matched in the step or one of its own timers fired, its 'window-created'
\* subscription and its overall timer are as they were and none of its
\* class-change subscriptions and sub-timeout timers is gone.
C22_LaunchesIndependent ==
    [][ \A m \in 1..Len(launches) :
           /\ launches'[m].maxKey = launches[m].maxKey
           /\ launches'[m].appId = launches[m].appId
           /\ launches'[m].path = launches[m].path
           /\ (op'.name \in TimerSteps /\ op'.nums[1] # m) => launches'[m] = launches[m]
           /\ op'.name = "LaunchHere" => launches'[m] = launches[m]
           /\ (/\ launches'[m].acted = launches[m].acted
               /\ ~(op'.name \in TimerSteps /\ op'.nums[1] = m))
              => /\ launches'[m].handler = launches[m].handler
                 /\ launches'[m].timer = launches[m].timer
                 /\ launches[m].subs \subseteq launches'[m].subs
                 /\ launches[m].subTimers \subseteq launches'[m].subTimers ]_vars

\* C22's case: the launch of A.a (threshold 3) watched window 2 of class b;
\* the launch of B.b came after it (threshold 4); window 3 of class a was
\* created: the first launch matched it and released its subscription and
\* its timer, the second holds its own and watches window 3
C22_Witness ==
    /\ op.name = "window-created" /\ op.nums = <<3>>
    /\ Len(launches) = 2
    /\ launches[1].maxKey < launches[2].maxKey
    /\ launches[1].acted = <<3>> /\ ~launches[1].handler /\ launches[1].timer = "removed"
    /\ launches[1].subs = {2}
    /\ launches[2].acted = <<>> /\ launches[2].handler /\ launches[2].timer = "pending"
    /\ launches[2].subs = {3} /\ launches[2].subTimers = {3}

====
